---- MODULE Spec2Model ----
(***************************************************************************)
(* Model of theia: the naive time-partitioned event store                  *)
(* (theia/naivestore.py), the live matcher and the collector               *)
(* (theia/collector.py), the event codec (theia/model.py) and the          *)
(* transport server (theia/comm.py).                                       *)
(*                                                                         *)
(* The specifications that share the module:                               *)
(*   Spec        the store, calls made one after the other: ingest queue,  *)
(*               save, flush, close, re-open on the same root directory    *)
(*   SpecThreads the store, one instance: the store context, the timer     *)
(*               thread and the closing thread interleave at every step    *)
(*   SpecLive    the live matcher: filters, concurrent pipe tasks          *)
(*   SpecCodec   the event codec at byte level                             *)
(*   SpecServer  the transport server with the collector's handlers: the   *)
(*               connection tasks, the dispatch of frames, /live and /find *)
(*   SpecStop    the registry of connections while they come and go and    *)
(*               another thread runs Server.stop()                         *)
(*   SpecThreadsFair  SpecThreads under a fair scheduler                   *)
(*   SpecFaults  SpecThreads with flushes that may fail, fair scheduler    *)
(*   SpecShutdown  Collector.run and Collector.stop: the two event loops,  *)
(*               the stopping thread and the thread of run()               *)
(*   SpecIndex   lookups in a FileIndex: binary_search, find,              *)
(*               find_event_file                                           *)
(*   SpecClient  the client's receive loop and its close handlers          *)
(*   SpecAddFile  a FileIndex built on a directory listing, add_file calls *)
(*   SpecPartitions  the store on an empty directory, sequential saves     *)
(*   SpecSavers  the store with two threads that call save                 *)
(*   SpecSearch  the filters of search over the events of a data file      *)
(*   SpecIngest  the collector from an /event frame to save and pipe,      *)
(*               persistent or not, with the thread of Collector.stop()    *)
(*   SpecPipe    Live.pipe over a snapshot, criteria and sends that raise  *)
(* Timestamps are whole seconds, so '%d' formatting of a partition name    *)
(* and the int() that parses it back are exact.                            *)
(***************************************************************************)
EXTENDS Integers, Sequences, FiniteSets, TLC

VARIABLES
    disk,        \* root_dir: partition file (DataFile) -> content (sequence of tokens)
    index,       \* FileIndex.files: sequence of DataFile, sorted by start
    open_files,  \* NaiveEventStore.open_files: dict path -> MemoryFile, in insertion order
    flush_sync,  \* TRUE iff flush_interval <= 0
    is_running,  \* PeriodicTimer.is_running
    queue,       \* callbacks posted to the store loop by Collector._on_event
    sv,          \* the store context running _store_event/save(): [pc, ev, file]
    fl,          \* threads running _flush_open_files (timer, closer): [pc, size, pos, file]
    nsaves,      \* number of frames ingested so far (the next event id - 1)
    nrestarts,   \* number of times the store was re-opened
    saved,       \* history: sequence of <<event, partition>>, one per save that returned
                 \*          on the current store instance
    closeSnap    \* history: value of saved when close() was called

storeVars == <<disk, index, open_files, flush_sync, is_running, queue, sv, fl,
               nsaves, nrestarts, saved, closeSnap>>

VARIABLES
    conn,        \* websocket -> "open" | "closed" (a send raises ConnectionClosed)
                 \*           | "failing" (a send raises another error)
    filters,     \* Live.filters: dict websocket -> LiveFilter, in insertion order
    pipe_queue,  \* pipe coroutines handed to the server loop by run_coroutine_threadsafe
    tasks,       \* pipe tasks started, in start order: [event, clone, pos, pc, called, errors]
    sent,        \* websocket -> the frames ws.send accepted, in order
    npiped,      \* number of events parsed by _store_event so far
    nlive        \* number of /live frames handled so far

liveVars == <<conn, filters, pipe_queue, tasks, sent, npiped, nlive>>

VARIABLES
    cev,      \* the Event handed to the serializer
    wire,     \* the bytes EventSerializer.serialize returned
    parsed,   \* what EventParser.parse_event made of them
    cpc       \* "event" | "bytes" | "parsed"

codecVars == <<cev, wire, parsed, cpc>>

VARIABLES
    websockets,  \* Server.websockets: dict websocket -> wsHandler, its entries [ws, used]
                 \* in insertion order
    cpath,       \* websocket -> request path of its connection, "" before it connects
    ctask,       \* websocket -> its _on_client_connection task: [pc, hnd]
    outbox,      \* websocket -> the frames the server sent on it, in order
    fired,       \* websocket -> number of times wsHandler.trigger ran for it
    loopq,       \* coroutines handed to the server loop with run_coroutine_threadsafe
    finds,       \* _find_event_results coroutines on the store loop, in start order
    stopper,     \* the thread calling Server.stop(): [pc, tracked, size, pos, wss, i, hnd,
                 \* semaphore, total_wait]
    dispatched,  \* history: the last frame dispatched: [ws, rpath, message, called, resp,
                 \* raised, sent]
    nframes,     \* number of frames received so far
    started,     \* Server._started
    coll         \* the collector's two loops and the thread calling Collector.stop()

serverVars == <<websockets, cpath, ctask, outbox, fired, loopq, finds, stopper,
                dispatched, nframes, started, coll>>

VARIABLES
    query,       \* a FileIndex with the arguments and the results of its lookups
    client       \* a comm.Client: its flag, its receive loop and its close observers

callVars == <<query, client>>

vars == <<storeVars, liveVars, codecVars, serverVars, callVars>>

\* what the steps of one part of the program leave alone
StoreOnly == UNCHANGED <<liveVars, codecVars, serverVars, callVars>>

LiveOnly == UNCHANGED <<storeVars, codecVars, serverVars, callVars>>

CodecOnly == UNCHANGED <<storeVars, liveVars, serverVars, callVars>>

CallsOnly == UNCHANGED <<storeVars, liveVars, codecVars, serverVars>>

\* a step of the server changes, outside serverVars, only the store queue with
\* its frame count, the live filters and the state of the connections
ServerOnly ==
    UNCHANGED <<disk, index, open_files, flush_sync, is_running, sv, fl, nrestarts,
                saved, closeSnap, pipe_queue, tasks, sent, npiped, nlive, codecVars,
                started, coll, callVars>>

----------------------------------------------------------------------------
(* Bounds of the model *)

MaxSaves == 3          \* frames ingested in Spec
MaxRestarts == 1       \* re-openings of the store in Spec
MaxThreadSaves == 2    \* frames ingested in SpecThreads

(* Program constants *)

data_file_interval == 60

(* Timestamps of ingested events: 10 and 140 open two partitions with a    *)
(* gap between them, 75 falls into that gap, and saving 75 before 10 makes *)
(* 10 an event older than the first partition.                             *)
Timestamps == {10, 75, 140}

(* SpecThreads: two timestamps, two partitions *)
ThreadTimestamps == {10, 140}

----------------------------------------------------------------------------
(* Names in the root directory: a partition file is named '<start>-<end>',  *)
(* a temporary file of NamedTemporaryFile is named 'tmp...'.                *)

data_name(start, end) == [tmp |-> "", start |-> start, end |-> end]

(* DataFile, FileIndex *)

DataFile(start, end) == [start |-> start, end |-> end]

path(data_file) == data_name(data_file.start, data_file.end)

NoFile == [start |-> 0 - 1, end |-> 0 - 1]

bs_loop_right(datafiles, timestamp, start, end) == end

\* binary_search's loop; indices are 1-based here, 0 stands for None
RECURSIVE bs_loop(_, _, _, _)
bs_loop(datafiles, timestamp, start, end) ==
    LET mid == (end + start) \div 2
        ge == datafiles[mid].end >= timestamp
        end2 == IF ge THEN mid ELSE end
        start2 == IF ge THEN start ELSE mid
    IN  IF end2 - start2 <= 1
        THEN IF datafiles[start2].end >= timestamp THEN start2 ELSE end2
        ELSE bs_loop(datafiles, timestamp, start2, end2)

binary_search(datafiles, timestamp) ==
    IF datafiles = <<>> THEN 0
    ELSE IF datafiles[1].start > timestamp \/ datafiles[Len(datafiles)].end < timestamp
         THEN 0
         ELSE bs_loop(datafiles, timestamp, 1, Len(datafiles))

\* sorted(files, key=lambda n: n.start): stable insertion of f into a sorted list
RECURSIVE insert_sorted(_, _)
insert_sorted(files, f) ==
    IF files = <<>> THEN <<f>>
    ELSE IF files[Len(files)].start <= f.start
         THEN Append(files, f)
         ELSE Append(insert_sorted(SubSeq(files, 1, Len(files) - 1), f), files[Len(files)])

RECURSIVE sorted_by_start(_)
sorted_by_start(files) ==
    IF files = <<>> THEN <<>>
    ELSE insert_sorted(sorted_by_start(SubSeq(files, 1, Len(files) - 1)), files[Len(files)])

\* FileIndex._load_data_file: the name matches \d+-\d+ iff both numbers are unsigned
load_data_file(fname) ==
    IF fname.tmp = "" /\ fname.start >= 0 /\ fname.end >= 0
    THEN <<DataFile(fname.start, fname.end)>>
    ELSE <<>>

\* FileIndex._load_files: listdir order is arbitrary; sorted by start
RECURSIVE listdir(_)
listdir(names) ==
    IF names = {} THEN <<>>
    ELSE LET n == CHOOSE m \in names : TRUE
         IN  <<n>> \o listdir(names \ {n})

RECURSIVE load_each(_)
load_each(names) ==
    IF names = <<>> THEN <<>>
    ELSE load_data_file(Head(names)) \o load_each(Tail(names))

load_files(root) == sorted_by_start(load_each(listdir(DOMAIN root)))

add_file_append(files, fname) == files \o load_data_file(fname)

\* FileIndex.add_file
add_file(files, fname) ==
    IF load_data_file(fname) # <<>>
    THEN sorted_by_start(files \o load_data_file(fname))
    ELSE files

find_event_file_containing(files, timestamp) ==
    IF \E k \in 1..Len(files) : files[k].start <= timestamp /\ timestamp <= files[k].end
    THEN files[CHOOSE k \in 1..Len(files) : files[k].start <= timestamp /\ timestamp <= files[k].end]
    ELSE NoFile

find_loop_first(files, idx, ts_from, ts_to) == <<files[idx]>>

\* FileIndex.find_event_file; NoFile stands for None
find_event_file(files, timestamp) ==
    LET idx == binary_search(files, timestamp)
    IN  IF idx # 0 THEN files[idx] ELSE NoFile

\* FileIndex.find: the loop from idx on; ts_to = 0 stands for "no upper bound"
RECURSIVE find_loop(_, _, _, _)
find_loop(files, idx, ts_from, ts_to) ==
    IF idx > Len(files) THEN <<>>
    ELSE IF ts_to # 0 /\ files[idx].start > ts_to THEN <<>>
    ELSE (IF files[idx].start >= ts_from \/ files[idx].end >= ts_from
          THEN <<files[idx]>> ELSE <<>>)
         \o find_loop(files, idx + 1, ts_from, ts_to)

find(files, ts_from, ts_to) ==
    LET bs == binary_search(files, ts_from)
        idx == IF bs = 0 /\ files # <<>>
               THEN IF files[1].start >= ts_from THEN 1
                    ELSE IF files[Len(files)].end <= ts_from THEN Len(files)
                    ELSE 0
               ELSE bs
    IN  IF idx # 0 THEN find_loop(files, idx, ts_from, ts_to) ELSE <<>>

----------------------------------------------------------------------------
(* Events and their place in a partition file.  In Spec a serialized event *)
(* is one token (save hands it to MemoryFile.write in one call) and the    *)
(* '\n' that save writes after it is another; SpecCodec models the bytes.  *)

Event(id, ts) == [id |-> id, ts |-> ts]

serialize_token(event) == [kind |-> "event", id |-> event.id, ts |-> event.ts]

newline == [kind |-> "nl", id |-> 0, ts |-> 0]

\* SequentialEventReader.events: parse_event, then seek over the separator
RECURSIVE read_events(_)
read_events(content) ==
    IF content = <<>> THEN <<>>
    ELSE IF Head(content).kind # "event" THEN <<>>
    ELSE <<Event(Head(content).id, Head(content).ts)>>
         \o read_events(SubSeq(content, 3, Len(content)))

----------------------------------------------------------------------------
(* MemoryFile and the open-files dict *)

\* dict lookup: position of the entry of path p in open_files, 0 when absent
RECURSIVE of_pos(_, _)
of_pos(of, p) ==
    IF of = <<>> THEN 0
    ELSE IF of[Len(of)].path = p THEN Len(of)
    ELSE of_pos(SubSeq(of, 1, Len(of) - 1), p)

\* MemoryFile.__init__
MemoryFile(p) == [path |-> p, buffer |-> <<>>]

\* MemoryFile.write: self.buffer.write(data)
mem_write(buffer, data) == Append(buffer, data)

\* the temporary file of one flush: NamedTemporaryFile(dir=self.path, delete=False)
temp_file_in_place(owner, target) == target

temp_file(owner, target) == [tmp |-> owner, start |-> 0, end |-> 0]

\* tmpf.write(self.buffer.getvalue()): what a flush captures of the buffer
getvalue(buffer) == buffer

\* shutil.move(src, dst) inside one directory: rename over dst
move(dir, src, dst) ==
    [n \in (DOMAIN dir \ {src}) \cup {dst} |-> IF n = dst THEN dir[src] ELSE dir[n]]

\* NaiveEventStore._get_new_data_file
get_new_data_file(ts_from) == DataFile(ts_from, ts_from + data_file_interval)

Savers == {"store"}
FlushThreads == {"timer", "closer"}

\* MemoryFile.lock of the buffer of path p is held by a flush between its
\* tmpf.write and its move
MemLocked(p) ==
    \/ \E t \in FlushThreads : fl[t].pc = "locked" /\ fl[t].file = p
    \/ \E s \in DOMAIN sv : sv[s].pc = "sync_locked" /\ sv[s].file = p

\* NaiveEventStore.write_lock is held by a saver from "open" to the return of save
WriteLocked == \E s \in DOMAIN sv : sv[s].pc \in {"write", "nl", "sync_tmp", "sync_lock", "sync_locked"}

buffer_of(p) == open_files[of_pos(open_files, p)].buffer

----------------------------------------------------------------------------
(* Collector._on_event and Collector._store_event / NaiveEventStore.save *)

IdleSaver == [pc |-> "idle", ev |-> Event(0, 0), file |-> path(NoFile)]

\* the store loop runs its callbacks in the order call_soon_threadsafe posted them
pop_callback_last(q) == [ev |-> q[Len(q)], rest |-> SubSeq(q, 1, Len(q) - 1)]

pop_callback(q) == [ev |-> Head(q), rest |-> SubSeq(q, 2, Len(q))]

\* where save goes after it has written the separator
after_write_never_flush(sync) == "idle"

after_write(sync) == IF sync THEN "sync_tmp" ELSE "idle"

\* /event frame: _on_event posts _store_event(message) to the store loop
OnEvent(ts, limit) ==
    /\ nsaves < limit
    /\ fl["closer"].pc = "idle"
    /\ nsaves' = nsaves + 1
    /\ queue' = Append(queue, Event(nsaves + 1, ts))
    /\ UNCHANGED <<disk, index, open_files, flush_sync, is_running, sv, fl,
                   nrestarts, saved, closeSnap>>

\* _store_event starts: parse, save -> _get_event_file -> index.find_event_file
SaveFind(s) ==
    /\ sv[s].pc = "idle"
    /\ queue # <<>>
    /\ LET ev == pop_callback(queue).ev
           data_file == find_event_file(index, ev.ts)
       IN  /\ queue' = pop_callback(queue).rest
           /\ sv' = [sv EXCEPT ![s] =
                        IF data_file # NoFile
                        THEN [pc |-> "open", ev |-> ev, file |-> path(data_file)]
                        ELSE [pc |-> "create", ev |-> ev, file |-> path(NoFile)]]
    /\ UNCHANGED <<disk, index, open_files, flush_sync, is_running, fl,
                   nsaves, nrestarts, saved, closeSnap>>

\* _get_event_file, no file found: under write_lock, new data file, index.add_file
SaveCreate(s) ==
    /\ sv[s].pc = "create"
    /\ ~WriteLocked
    /\ LET data_file == get_new_data_file(sv[s].ev.ts)
       IN  /\ index' = add_file(index, path(data_file))
           /\ sv' = [sv EXCEPT ![s].pc = "open", ![s].file = path(data_file)]
    /\ UNCHANGED <<disk, open_files, flush_sync, is_running, queue, fl,
                   nsaves, nrestarts, saved, closeSnap>>

\* save: acquire write_lock; open the MemoryFile unless the dict has it
SaveOpen(s) ==
    /\ sv[s].pc = "open"
    /\ ~WriteLocked
    /\ open_files' = IF of_pos(open_files, sv[s].file) = 0
                     THEN Append(open_files, MemoryFile(sv[s].file))
                     ELSE open_files
    /\ sv' = [sv EXCEPT ![s].pc = "write"]
    /\ UNCHANGED <<disk, index, flush_sync, is_running, queue, fl,
                   nsaves, nrestarts, saved, closeSnap>>

\* save: mem_file.write(self.serializer.serialize(event))
SaveWrite(s) ==
    /\ sv[s].pc = "write"
    /\ ~MemLocked(sv[s].file)
    /\ open_files' = [open_files EXCEPT ![of_pos(open_files, sv[s].file)].buffer =
                          mem_write(@, serialize_token(sv[s].ev))]
    /\ sv' = [sv EXCEPT ![s].pc = "nl"]
    /\ UNCHANGED <<disk, index, flush_sync, is_running, queue, fl,
                   nsaves, nrestarts, saved, closeSnap>>

\* save: mem_file.write('\n'); without synchronous flush save returns here
SaveNl(s) ==
    /\ sv[s].pc = "nl"
    /\ ~MemLocked(sv[s].file)
    /\ open_files' = [open_files EXCEPT ![of_pos(open_files, sv[s].file)].buffer =
                          mem_write(@, newline)]
    /\ sv' = IF after_write(flush_sync) = "idle"
             THEN [sv EXCEPT ![s] = IdleSaver]
             ELSE [sv EXCEPT ![s].pc = after_write(flush_sync)]
    /\ saved' = IF after_write(flush_sync) = "idle"
                THEN Append(saved, <<sv[s].ev, sv[s].file>>)
                ELSE saved
    /\ UNCHANGED <<disk, index, flush_sync, is_running, queue, fl,
                   nsaves, nrestarts, closeSnap>>

\* save, flush_interval <= 0: mem_file.flush() creates its temporary file
SaveFlushTmp(s) ==
    /\ sv[s].pc = "sync_tmp"
    /\ disk' = (temp_file(s, sv[s].file) :> <<>>) @@ disk
    /\ sv' = [sv EXCEPT ![s].pc = "sync_lock"]
    /\ UNCHANGED <<index, open_files, flush_sync, is_running, queue, fl,
                   nsaves, nrestarts, saved, closeSnap>>

\* mem_file.flush(): acquire the buffer lock, write the buffer to the temporary file
SaveFlushWrite(s) ==
    /\ sv[s].pc = "sync_lock"
    /\ ~MemLocked(sv[s].file)
    /\ disk' = [disk EXCEPT ![temp_file(s, sv[s].file)] = getvalue(buffer_of(sv[s].file))]
    /\ sv' = [sv EXCEPT ![s].pc = "sync_locked"]
    /\ UNCHANGED <<index, open_files, flush_sync, is_running, queue, fl,
                   nsaves, nrestarts, saved, closeSnap>>

\* mem_file.flush(): move the temporary file over the partition file; save returns
SaveFlushMove(s) ==
    /\ sv[s].pc = "sync_locked"
    /\ disk' = move(disk, temp_file(s, sv[s].file), sv[s].file)
    /\ sv' = [sv EXCEPT ![s] = IdleSaver]
    /\ saved' = Append(saved, <<sv[s].ev, sv[s].file>>)
    /\ UNCHANGED <<index, open_files, flush_sync, is_running, queue, fl,
                   nsaves, nrestarts, closeSnap>>

----------------------------------------------------------------------------
(* NaiveEventStore._flush_open_files, run by the PeriodicTimer thread and   *)
(* by close(): a for loop over open_files.items(), MemoryFile.flush on each *)

IdleFlusher(pc) == [pc |-> pc, size |-> 0, pos |-> 0, file |-> path(NoFile)]

\* the entries the loop of _flush_open_files visits: every entry of the dict
entries_to_flush_but_last(of) == IF of = <<>> THEN 0 ELSE Len(of) - 1

entries_to_flush(of) == Len(of)

\* iter(open_files.items())
StartIter(t) == [pc |-> "iter", size |-> entries_to_flush(open_files), pos |-> 1,
                 file |-> path(NoFile)]

\* next() of the dict iterator, then open_file.flush() creates its temporary file.
\* A dict that changed size since iter() raises RuntimeError out of the loop:
\* PeriodicTimer.run swallows it, close() lets it propagate.
IterNext(t) ==
    /\ fl[t].pc = "iter"
    /\ IF fl[t].size # entries_to_flush(open_files)
       THEN /\ fl' = [fl EXCEPT ![t] = IdleFlusher(IF t = "timer" THEN "sleep" ELSE "raised")]
            /\ disk' = disk
       ELSE IF fl[t].pos > fl[t].size
       THEN /\ fl' = [fl EXCEPT ![t] = IdleFlusher(IF t = "timer" THEN "sleep" ELSE "cancel")]
            /\ disk' = disk
       ELSE /\ fl' = [fl EXCEPT ![t].pc = "tmp", ![t].file = open_files[fl[t].pos].path]
            /\ disk' = (temp_file(t, open_files[fl[t].pos].path) :> <<>>) @@ disk
    /\ UNCHANGED <<index, open_files, flush_sync, is_running, queue, sv,
                   nsaves, nrestarts, saved, closeSnap>>

\* MemoryFile.flush: acquire the buffer lock, tmpf.write(buffer.getvalue()), tmpf.flush()
FlushWrite(t) ==
    /\ fl[t].pc = "tmp"
    /\ ~MemLocked(fl[t].file)
    /\ disk' = [disk EXCEPT ![temp_file(t, fl[t].file)] = getvalue(buffer_of(fl[t].file))]
    /\ fl' = [fl EXCEPT ![t].pc = "locked"]
    /\ UNCHANGED <<index, open_files, flush_sync, is_running, queue, sv,
                   nsaves, nrestarts, saved, closeSnap>>

\* MemoryFile.flush: move(tmpf.name, path), release the buffer lock
FlushMove(t) ==
    /\ fl[t].pc = "locked"
    /\ disk' = move(disk, temp_file(t, fl[t].file), fl[t].file)
    /\ fl' = [fl EXCEPT ![t].pc = "iter", ![t].pos = @ + 1, ![t].file = path(NoFile)]
    /\ UNCHANGED <<index, open_files, flush_sync, is_running, queue, sv,
                   nsaves, nrestarts, saved, closeSnap>>

\* PeriodicTimer.run: self.is_running = True
TimerStart ==
    /\ fl["timer"].pc = "start"
    /\ is_running' = TRUE
    /\ fl' = [fl EXCEPT !["timer"].pc = "sleep"]
    /\ UNCHANGED <<disk, index, open_files, flush_sync, queue, sv,
                   nsaves, nrestarts, saved, closeSnap>>

\* PeriodicTimer.run: the sleep ends; while self.is_running: self.action()
TimerWake ==
    /\ fl["timer"].pc = "sleep"
    /\ fl' = [fl EXCEPT !["timer"] = IF is_running THEN StartIter("timer")
                                     ELSE IdleFlusher("exit")]
    /\ UNCHANGED <<disk, index, open_files, flush_sync, is_running, queue, sv,
                   nsaves, nrestarts, saved, closeSnap>>

\* NaiveEventStore.close is called: self._flush_open_files()
CloseBegin ==
    /\ fl["closer"].pc = "idle"
    /\ fl' = [fl EXCEPT !["closer"] = StartIter("closer")]
    /\ closeSnap' = saved
    /\ UNCHANGED <<disk, index, open_files, flush_sync, is_running, queue, sv,
                   nsaves, nrestarts, saved>>

\* close: if self.timer: self.timer.cancel()
CloseCancel ==
    /\ fl["closer"].pc = "cancel"
    /\ IF fl["timer"].pc # "off"
       THEN /\ is_running' = FALSE
            /\ fl' = [fl EXCEPT !["closer"].pc = "join"]
       ELSE /\ is_running' = is_running
            /\ fl' = [fl EXCEPT !["closer"].pc = "returned"]
    /\ UNCHANGED <<disk, index, open_files, flush_sync, queue, sv,
                   nsaves, nrestarts, saved, closeSnap>>

\* close: self.timer.join() returns once the timer thread has ended
CloseJoin ==
    /\ fl["closer"].pc = "join"
    /\ fl["timer"].pc = "exit"
    /\ fl' = [fl EXCEPT !["closer"].pc = "returned"]
    /\ UNCHANGED <<disk, index, open_files, flush_sync, is_running, queue, sv,
                   nsaves, nrestarts, saved, closeSnap>>

----------------------------------------------------------------------------
(* NaiveEventStore.__init__ *)

NewStore(root, sync) ==
    /\ index = load_files(root)
    /\ open_files = <<>>
    /\ flush_sync = sync
    /\ is_running = FALSE
    /\ fl = [t \in FlushThreads |->
                IF t = "timer" THEN IdleFlusher(IF sync THEN "off" ELSE "start")
                ELSE IdleFlusher("idle")]

InitStore ==
    /\ disk = << >>
    /\ \E sync \in BOOLEAN : NewStore(disk, sync)
    /\ queue = <<>>
    /\ sv = [s \in Savers |-> IdleSaver]
    /\ nsaves = 0
    /\ nrestarts = 0
    /\ saved = <<>>
    /\ closeSnap = <<>>

\* the closed store's process has ended; a new NaiveEventStore is constructed on
\* the same root directory
Reopen(sync) ==
    /\ fl["closer"].pc = "returned"
    /\ fl["timer"].pc \in {"off", "exit"}
    /\ queue = <<>>
    /\ \A s \in Savers : sv[s].pc = "idle"
    /\ nrestarts < MaxRestarts
    /\ nrestarts' = nrestarts + 1
    /\ index' = load_files(disk)
    /\ open_files' = <<>>
    /\ flush_sync' = sync
    /\ is_running' = FALSE
    /\ fl' = [t \in FlushThreads |->
                IF t = "timer" THEN IdleFlusher(IF sync THEN "off" ELSE "start")
                ELSE IdleFlusher("idle")]
    /\ saved' = <<>>
    /\ closeSnap' = <<>>
    /\ UNCHANGED <<disk, queue, sv, nsaves>>

(* Spec: the calls are made one after the other.  The store context, the   *)
(* timer thread and the thread calling close() each run an operation to    *)
(* its end before another one starts one (join waits for the timer).       *)

Resting(t) ==
    CASE t = "store"  -> sv["store"].pc = "idle"
      [] t = "timer"  -> fl["timer"].pc \in {"off", "start", "sleep", "exit"}
      [] t = "closer" -> fl["closer"].pc \in {"idle", "join", "returned", "raised"}

OneAtATime(t) == \A u \in {"store", "timer", "closer"} \ {t} : Resting(u)

Next ==
    \/ \E ts \in Timestamps : OneAtATime("client") /\ OnEvent(ts, MaxSaves) /\ StoreOnly
    \/ OneAtATime("store") /\ SaveFind("store") /\ StoreOnly
    \/ OneAtATime("store") /\ SaveCreate("store") /\ StoreOnly
    \/ OneAtATime("store") /\ SaveOpen("store") /\ StoreOnly
    \/ OneAtATime("store") /\ SaveWrite("store") /\ StoreOnly
    \/ OneAtATime("store") /\ SaveNl("store") /\ StoreOnly
    \/ OneAtATime("store") /\ SaveFlushTmp("store") /\ StoreOnly
    \/ OneAtATime("store") /\ SaveFlushWrite("store") /\ StoreOnly
    \/ OneAtATime("store") /\ SaveFlushMove("store") /\ StoreOnly
    \/ \E t \in FlushThreads : OneAtATime(t) /\ IterNext(t) /\ StoreOnly
    \/ \E t \in FlushThreads : OneAtATime(t) /\ FlushWrite(t) /\ StoreOnly
    \/ \E t \in FlushThreads : OneAtATime(t) /\ FlushMove(t) /\ StoreOnly
    \/ OneAtATime("timer") /\ TimerStart /\ StoreOnly
    \/ OneAtATime("timer") /\ TimerWake /\ StoreOnly
    \/ OneAtATime("closer") /\ CloseBegin /\ StoreOnly
    \/ OneAtATime("closer") /\ CloseCancel /\ StoreOnly
    \/ OneAtATime("closer") /\ CloseJoin /\ StoreOnly
    \/ \E sync \in BOOLEAN : Reopen(sync) /\ StoreOnly

(* SpecThreads: one store instance; the store context, the timer thread    *)
(* and the thread calling close() interleave at every step.                *)

NextThreads ==
    \/ \E ts \in ThreadTimestamps : OnEvent(ts, MaxThreadSaves) /\ StoreOnly
    \/ \E s \in Savers : SaveFind(s) /\ StoreOnly
    \/ \E s \in Savers : SaveCreate(s) /\ StoreOnly
    \/ \E s \in Savers : SaveOpen(s) /\ StoreOnly
    \/ \E s \in Savers : SaveWrite(s) /\ StoreOnly
    \/ \E s \in Savers : SaveNl(s) /\ StoreOnly
    \/ \E s \in Savers : SaveFlushTmp(s) /\ StoreOnly
    \/ \E s \in Savers : SaveFlushWrite(s) /\ StoreOnly
    \/ \E s \in Savers : SaveFlushMove(s) /\ StoreOnly
    \/ \E t \in FlushThreads : IterNext(t) /\ StoreOnly
    \/ \E t \in FlushThreads : FlushWrite(t) /\ StoreOnly
    \/ \E t \in FlushThreads : FlushMove(t) /\ StoreOnly
    \/ TimerStart /\ StoreOnly
    \/ TimerWake /\ StoreOnly
    \/ CloseBegin /\ StoreOnly
    \/ CloseCancel /\ StoreOnly
    \/ CloseJoin /\ StoreOnly

(* SpecSavers: one store on an empty directory and two threads that call   *)
(* save, interleaved at every step; the timer and close() stay out.         *)

MaxConcurrent == 2     \* events saved in SpecSavers

SaveThreads == {"t1", "t2"}

\* 10 and 15 lie in one window of data_file_interval seconds
SaverTimestamps == {10, 15}

InitSavers ==
    /\ disk = << >>
    /\ \E sync \in BOOLEAN : NewStore(disk, sync)
    /\ queue = <<>>
    /\ sv = [s \in SaveThreads |-> IdleSaver]
    /\ nsaves = 0
    /\ nrestarts = 0
    /\ saved = <<>>
    /\ closeSnap = <<>>

NextSavers ==
    \/ \E ts \in SaverTimestamps : OnEvent(ts, MaxConcurrent) /\ StoreOnly
    \/ \E s \in SaveThreads : SaveFind(s) /\ StoreOnly
    \/ \E s \in SaveThreads : SaveCreate(s) /\ StoreOnly
    \/ \E s \in SaveThreads : SaveOpen(s) /\ StoreOnly
    \/ \E s \in SaveThreads : SaveWrite(s) /\ StoreOnly
    \/ \E s \in SaveThreads : SaveNl(s) /\ StoreOnly
    \/ \E s \in SaveThreads : SaveFlushTmp(s) /\ StoreOnly
    \/ \E s \in SaveThreads : SaveFlushWrite(s) /\ StoreOnly
    \/ \E s \in SaveThreads : SaveFlushMove(s) /\ StoreOnly

(* SpecPartitions: one store on an empty directory, calls made one after   *)
(* the other, with timestamps of which 20 is older than the partition that *)
(* 75 opens and less than its width away from it.                          *)

PartitionTimestamps == {20, 75, 140}

NextPartitions ==
    \/ \E ts \in PartitionTimestamps :
          OneAtATime("client") /\ OnEvent(ts, MaxSaves) /\ StoreOnly
    \/ OneAtATime("store") /\ SaveFind("store") /\ StoreOnly
    \/ OneAtATime("store") /\ SaveCreate("store") /\ StoreOnly
    \/ OneAtATime("store") /\ SaveOpen("store") /\ StoreOnly
    \/ OneAtATime("store") /\ SaveWrite("store") /\ StoreOnly
    \/ OneAtATime("store") /\ SaveNl("store") /\ StoreOnly
    \/ OneAtATime("store") /\ SaveFlushTmp("store") /\ StoreOnly
    \/ OneAtATime("store") /\ SaveFlushWrite("store") /\ StoreOnly
    \/ OneAtATime("store") /\ SaveFlushMove("store") /\ StoreOnly
    \/ \E t \in FlushThreads : OneAtATime(t) /\ IterNext(t) /\ StoreOnly
    \/ \E t \in FlushThreads : OneAtATime(t) /\ FlushWrite(t) /\ StoreOnly
    \/ \E t \in FlushThreads : OneAtATime(t) /\ FlushMove(t) /\ StoreOnly
    \/ OneAtATime("timer") /\ TimerStart /\ StoreOnly
    \/ OneAtATime("timer") /\ TimerWake /\ StoreOnly
    \/ OneAtATime("closer") /\ CloseBegin /\ StoreOnly
    \/ OneAtATime("closer") /\ CloseCancel /\ StoreOnly
    \/ OneAtATime("closer") /\ CloseJoin /\ StoreOnly

\* C32: after any sequence of saves by one store that started on an empty
\* directory, no two DataFiles of the index have intersecting [start, end]
\* ranges, and every partition spans [t, t + 60] for the timestamp t of the
\* save that created it.
C32_NoOverlap ==
    /\ \A i, j \in 1..Len(index) : i < j => index[i].end < index[j].start
    /\ \A i \in 1..Len(index) :
          /\ index[i].end = index[i].start + data_file_interval
          /\ index[i].start \in PartitionTimestamps

(* Failures of MemoryFile.flush: tmpf.write, tmpf.flush or move raises      *)
(* (disk full, directory gone).  The temporary file stays behind, the      *)
(* finally clause releases the buffer lock.                                 *)

\* _flush_open_files, except Exception: log.error, on to the next entry
flush_error_abort(f) == IdleFlusher("sleep")

flush_error(f) == [f EXCEPT !.pc = "iter", !.pos = @ + 1, !.file = path(NoFile)]

\* open_file.flush() raises inside the loop of _flush_open_files
FlushFails(t) ==
    /\ fl[t].pc \in {"tmp", "locked"}
    /\ fl[t].pc = "tmp" => ~MemLocked(fl[t].file)
    /\ fl' = [fl EXCEPT ![t].pc = "failed"]
    /\ UNCHANGED <<disk, index, open_files, flush_sync, is_running, queue, sv,
                   nsaves, nrestarts, saved, closeSnap>>

\* the except clause of _flush_open_files
FlushLogError(t) ==
    /\ fl[t].pc = "failed"
    /\ fl' = [fl EXCEPT ![t] = flush_error(fl[t])]
    /\ UNCHANGED <<disk, index, open_files, flush_sync, is_running, queue, sv,
                   nsaves, nrestarts, saved, closeSnap>>

\* save, flush_interval <= 0: mem_file.flush() raises; the finally clause
\* releases write_lock and save raises
SaveFlushFails(s) ==
    /\ sv[s].pc \in {"sync_lock", "sync_locked"}
    /\ sv[s].pc = "sync_lock" => ~MemLocked(sv[s].file)
    /\ sv' = [sv EXCEPT ![s].pc = "raised"]
    /\ UNCHANGED <<disk, index, open_files, flush_sync, is_running, queue, fl,
                   nsaves, nrestarts, saved, closeSnap>>

\* _store_event: the exception of save leaves the callback; the store loop
\* logs it and goes on with the next callback
StoreEventRaised(s) ==
    /\ sv[s].pc = "raised"
    /\ sv' = [sv EXCEPT ![s] = IdleSaver]
    /\ UNCHANGED <<disk, index, open_files, flush_sync, is_running, queue, fl,
                   nsaves, nrestarts, saved, closeSnap>>

(* SpecFaults: the threads of SpecThreads with flushes that may fail, under *)
(* a scheduler that lets every thread that can take a step take one.  A    *)
(* failure is never required to happen.                                    *)

NextFaults ==
    \/ NextThreads
    \/ \E t \in FlushThreads : FlushFails(t) /\ StoreOnly
    \/ \E t \in FlushThreads : FlushLogError(t) /\ StoreOnly
    \/ \E s \in Savers : SaveFlushFails(s) /\ StoreOnly
    \/ \E s \in Savers : StoreEventRaised(s) /\ StoreOnly

(* SpecThreadsFair: the threads of SpecThreads under a scheduler that lets  *)
(* every thread that can take a step take one: a sleep ends, a lock that   *)
(* is free is acquired, a started thread runs.                             *)

SaverStep ==
    \E s \in Savers :
        /\ \/ SaveFind(s) \/ SaveCreate(s) \/ SaveOpen(s) \/ SaveWrite(s) \/ SaveNl(s)
           \/ SaveFlushTmp(s) \/ SaveFlushWrite(s) \/ SaveFlushMove(s)
           \/ StoreEventRaised(s)
        /\ StoreOnly

TimerStep ==
    /\ \/ TimerStart \/ TimerWake
       \/ IterNext("timer") \/ FlushWrite("timer") \/ FlushMove("timer")
       \/ FlushLogError("timer")
    /\ StoreOnly

CloserStep ==
    /\ \/ CloseCancel \/ CloseJoin
       \/ IterNext("closer") \/ FlushWrite("closer") \/ FlushMove("closer")
       \/ FlushLogError("closer")
    /\ StoreOnly

ThreadsFair == WF_vars(SaverStep) /\ WF_vars(TimerStep) /\ WF_vars(CloserStep)

\* C23: NaiveEventStore.close() always terminates: once close() has been
\* called it returns (or raises), the timer thread having ended after
\* cancel(), also when close() is called right after construction.
C23_CloseTerminates ==
    (fl["closer"].pc # "idle") ~> (fl["closer"].pc \in {"returned", "raised"})

----------------------------------------------------------------------------
(* NaiveEventStore.search with no tag and no content filter, order 'asc'    *)

Range(seq) == {seq[i] : i \in 1..Len(seq)}

RECURSIVE select_events(_, _, _, _)
select_events(events, ts_start, has_end, ts_end) ==
    IF events = <<>> THEN <<>>
    ELSE (IF Head(events).ts >= ts_start /\ (~has_end \/ Head(events).ts <= ts_end)
          THEN <<Head(events)>> ELSE <<>>)
         \o select_events(Tail(events), ts_start, has_end, ts_end)

\* NaiveEventStore._match_forward: read the on-disk file of data_file
match_forward(root, data_file, ts_start, has_end, ts_end) ==
    select_events(read_events(root[path(data_file)]), ts_start, has_end, ts_end)

\* the loop of search over the data files; open() of a missing file raises and ends it
RECURSIVE search_files(_, _, _, _, _)
search_files(root, data_files, ts_start, has_end, ts_end) ==
    IF data_files = <<>> THEN <<>>
    ELSE IF path(Head(data_files)) \notin DOMAIN root THEN <<>>
    ELSE match_forward(root, Head(data_files), ts_start, has_end, ts_end)
         \o search_files(root, Tail(data_files), ts_start, has_end, ts_end)

\* NaiveEventStore.search(ts_start, ts_end); has_end = FALSE stands for ts_end=None
search(root, files, ts_start, has_end, ts_end) ==
    search_files(root, find(files, ts_start, IF has_end THEN ts_end ELSE 0),
                 ts_start, has_end, ts_end)

\* NaiveEventStore._seq_event_parser: open(data_file.path, 'rb') raises
\* FileNotFoundError out of the generator of search when a data file that
\* find returned is not on disk
search_raises(root, files, ts_start, has_end, ts_end) ==
    \E f \in Range(find(files, ts_start, IF has_end THEN ts_end ELSE 0)) :
        path(f) \notin DOMAIN root

\* reversed(matched)
RECURSIVE reversed(_)
reversed(matched) ==
    IF matched = <<>> THEN <<>> ELSE reversed(Tail(matched)) \o <<Head(matched)>>

\* NaiveEventStore._match_reverse: the matches of one data file, last first
match_reverse(root, data_file, ts_start, has_end, ts_end) ==
    reversed(match_forward(root, data_file, ts_start, has_end, ts_end))

\* NaiveEventStore._search_data_file
search_data_file(root, data_file, ts_start, has_end, ts_end, reverse) ==
    IF reverse THEN match_reverse(root, data_file, ts_start, has_end, ts_end)
    ELSE match_forward(root, data_file, ts_start, has_end, ts_end)

\* the loop of search with an order: the data files are taken as find returned them
RECURSIVE search_in_order(_, _, _, _, _, _)
search_in_order(root, data_files, ts_start, has_end, ts_end, order) ==
    IF data_files = <<>> THEN <<>>
    ELSE IF path(Head(data_files)) \notin DOMAIN root THEN <<>>
    ELSE search_data_file(root, Head(data_files), ts_start, has_end, ts_end, order = "desc")
         \o search_in_order(root, Tail(data_files), ts_start, has_end, ts_end, order)

\* NaiveEventStore.search(ts_start, ts_end, order=order)
search_order(root, files, ts_start, has_end, ts_end, order) ==
    search_in_order(root, find(files, ts_start, IF has_end THEN ts_end ELSE 0),
                    ts_start, has_end, ts_end, order)

----------------------------------------------------------------------------
(* Properties of the store *)

IsPartition(n) == n.tmp = ""

Max(a, b) == IF a >= b THEN a ELSE b

IsPrefix(a, b) == Len(a) <= Len(b) /\ SubSeq(b, 1, Len(a)) = a

EventTokens(content) == SelectSeq(content, LAMBDA tok : tok.kind = "event")

\* no call in progress and every open buffer is on disk as it is
AllFlushed ==
    /\ queue = <<>>
    /\ \A s \in Savers : sv[s].pc = "idle"
    /\ \A i \in 1..Len(open_files) :
          /\ open_files[i].path \in DOMAIN disk
          /\ disk[open_files[i].path] = open_files[i].buffer

\* what the saves of this store instance wrote for partition p, in save order
RECURSIVE records_of(_, _)
records_of(log, p) ==
    IF log = <<>> THEN <<>>
    ELSE (IF Head(log)[2] = p THEN <<serialize_token(Head(log)[1]), newline>> ELSE <<>>)
         \o records_of(Tail(log), p)

\* C1: search completeness.  After any sequence of saves followed by a flush,
\* search(a, b) with no tag or content filter yields every saved event whose
\* timestamp lies in [a, b] (no b: no upper bound).
C1_SearchComplete ==
    AllFlushed =>
        \A a \in Timestamps, b \in Timestamps, has_end \in BOOLEAN :
            \A i \in 1..Len(saved) :
                LET e == saved[i][1]
                IN  (e.ts >= a /\ (has_end => e.ts <= b))
                        => e \in Range(search(disk, index, a, has_end, b))

\* C2: partition eligibility and round trip.  Every event held in a partition's
\* buffer or on-disk file has start <= timestamp <= end of that partition, and
\* after a flush every saved event is read back from a partition whose range
\* contains its timestamp.
C2_PartitionEligible ==
    /\ \A i \in 1..Len(open_files) :
          \A tok \in Range(EventTokens(open_files[i].buffer)) :
              open_files[i].path.start <= tok.ts /\ tok.ts <= open_files[i].path.end
    /\ \A n \in DOMAIN disk :
          IsPartition(n) =>
              \A tok \in Range(EventTokens(disk[n])) : n.start <= tok.ts /\ tok.ts <= n.end
    /\ AllFlushed =>
          \A i \in 1..Len(saved) :
              \E n \in DOMAIN disk :
                  /\ IsPartition(n) /\ n.start <= saved[i][1].ts /\ saved[i][1].ts <= n.end
                  /\ saved[i][1] \in Range(read_events(disk[n]))

\* C3: append-only across restart.  Every step, also after the store was closed
\* and re-opened on the same directory, leaves each partition file in place and
\* only extends its previous on-disk content.
C3_AppendOnly ==
    [][\A n \in DOMAIN disk :
          IsPartition(n) => n \in DOMAIN disk' /\ IsPrefix(disk[n], disk'[n])]_storeVars

PartitionPaths == {path(get_new_data_file(ts)) : ts \in ThreadTimestamps}

\* C24: a failure while flushing one partition leaves the buffers as they
\* are and the partition file as it was; the pass goes on with the next open
\* partition; the periodic flusher ends only when it was cancelled, and the
\* failed partition is flushed again in a later pass.
C24_FlushFailureContained ==
    /\ [][\A t \in FlushThreads :
            /\ (fl[t].pc # "failed" /\ fl'[t].pc = "failed") =>
                  /\ open_files' = open_files
                  /\ \A n \in DOMAIN disk :
                        IsPartition(n) => n \in DOMAIN disk' /\ disk'[n] = disk[n]
            /\ (fl[t].pc = "failed" /\ fl'[t] # fl[t]) =>
                  /\ fl'[t].pc = "iter"
                  /\ fl'[t].pos = fl[t].pos + 1
                  /\ fl'[t].size = fl[t].size
            /\ (t = "timer" /\ fl[t].pc # "exit" /\ fl'[t].pc = "exit") => ~is_running]_vars
    /\ \A p \in PartitionPaths :
          (fl["timer"].pc = "failed" /\ fl["timer"].file = p)
              ~> (\/ fl["timer"].pc = "tmp" /\ fl["timer"].file = p
                  \/ fl["timer"].pc = "exit")

\* the timer's flush of the first partition failed (its file is not on disk)
\* and the same pass is writing the second one
C24_Witness ==
    /\ fl["timer"].pc = "locked" /\ fl["timer"].pos = 2
    /\ Len(open_files) = 2
    /\ open_files[1].path \notin DOMAIN disk

\* C25: save is atomic.  When save(e) has raised, the record of e is in no
\* buffer and in no file of the directory.
C25_SaveAtomic ==
    \A s \in Savers :
        sv[s].pc = "raised" =>
            /\ \A i \in 1..Len(open_files) :
                  serialize_token(sv[s].ev) \notin Range(open_files[i].buffer)
            /\ \A n \in DOMAIN disk : serialize_token(sv[s].ev) \notin Range(disk[n])

\* C38: whenever the periodic flusher runs concurrently with save, every
\* partition file it writes on disk is a concatenation of complete records,
\* a serialized event followed by its '\n' separator: a flush never captures
\* an event without its separator.
C38_FlushCompleteRecords ==
    \A n \in DOMAIN disk :
        IsPartition(n) =>
            /\ Len(disk[n]) % 2 = 0
            /\ \A i \in 1..Len(disk[n]) :
                   disk[n][i].kind = (IF i % 2 = 1 THEN "event" ELSE "nl")

\* the events on disk, in the files that find returns, that lie in the range
FlushedMatching(ts_start, has_end, ts_end) ==
    {e \in UNION {Range(read_events(disk[path(f)])) :
                    f \in {g \in Range(find(index, ts_start, IF has_end THEN ts_end ELSE 0)) :
                             path(g) \in DOMAIN disk}} :
        e.ts >= ts_start /\ (has_end => e.ts <= ts_end)}

\* C39: a search whose range covers a partition that is in the FileIndex but
\* not yet flushed to disk completes without error and yields exactly the
\* matching flushed events of the other partitions: it observes the
\* unflushed partition as empty.
C39_SearchUnflushed ==
    \A a \in Timestamps, b \in Timestamps, has_end \in BOOLEAN :
        (\E f \in Range(find(index, a, IF has_end THEN b ELSE 0)) : path(f) \notin DOMAIN disk)
            => /\ ~search_raises(disk, index, a, has_end, b)
               /\ Range(search(disk, index, a, has_end, b)) = FlushedMatching(a, has_end, b)

\* C37: when two threads call save concurrently with events for which no
\* partition exists yet, exactly one DataFile is added to the FileIndex for
\* the new window: the index never holds two entries with the same path,
\* there is one MemoryFile per path, and every saved event is in the buffer
\* of the MemoryFile of its path.
C37_OnePartitionPerWindow ==
    /\ \A i, j \in 1..Len(index) : i # j => path(index[i]) # path(index[j])
    /\ \A i, j \in 1..Len(open_files) : i # j => open_files[i].path # open_files[j].path
    /\ \A i \in 1..Len(saved) :
           serialize_token(saved[i][1]) \in Range(buffer_of(saved[i][2]))

\* the timestamps of a result are in the order asked for
Ordered(result, order) ==
    \A i \in 1..(Len(result) - 1) :
        IF order = "desc" THEN result[i].ts >= result[i + 1].ts
        ELSE result[i].ts <= result[i + 1].ts

\* C26: search returns the matched events ordered by timestamp over the whole
\* result, across partitions: non-decreasing for 'asc', non-increasing for
\* 'desc', whatever the order in which the events were saved.
C26_SearchOrdered ==
    AllFlushed =>
        \A a \in Timestamps, order \in {"asc", "desc"} :
            Ordered(search_order(disk, index, a, FALSE, 0, order), order)

\* event ids count the frames in arrival order
InArrivalOrder(content) ==
    \A i, j \in 1..Len(EventTokens(content)) :
        i < j => EventTokens(content)[i].id < EventTokens(content)[j].id

\* C6: persist order.  In every partition buffer and in every partition file the
\* events appear in the order their frames arrived, for every interleaving of
\* the store context and the flushing threads.
C6_PersistOrder ==
    /\ \A i \in 1..Len(open_files) : InArrivalOrder(open_files[i].buffer)
    /\ \A n \in DOMAIN disk : IsPartition(n) => InArrivalOrder(disk[n])

C6_Witness ==
    \E n \in DOMAIN disk :
        /\ IsPartition(n)
        /\ Len(EventTokens(disk[n])) >= 2
        /\ fl["timer"].pc = "sleep"

\* C7: atomic flush visibility.  Whenever a partition file appears or changes,
\* its new content is the complete content of its buffer, which the flush that
\* makes the step captured under the buffer lock; at no other step does the
\* visible partition file change.
C7_AtomicFlush ==
    [][\A n \in DOMAIN disk' :
          (IsPartition(n) /\ (n \notin DOMAIN disk \/ disk'[n] # disk[n]))
              => /\ of_pos(open_files, n) # 0
                 /\ disk'[n] = buffer_of(n)
                 /\ MemLocked(n)]_storeVars

\* a flush holds the lock of a buffer that the store context is in the middle of
\* writing a record to, and the partition file shows an earlier flush
C7_Witness ==
    \E t \in FlushThreads :
        /\ fl[t].pc = "locked"
        /\ sv["store"].pc = "nl"
        /\ sv["store"].file = fl[t].file
        /\ fl[t].file \in DOMAIN disk
        /\ disk[fl[t].file] # <<>>
        /\ disk[fl[t].file] # buffer_of(fl[t].file)

----------------------------------------------------------------------------
(* Event.match (theia/model.py) and the live matcher (theia/collector.py).  *)
(* A string is a sequence of characters.  The regular expressions of the    *)
(* criteria are literal patterns, for which re.match(pattern, value) holds  *)
(* iff value starts with pattern.  A criteria dict is a function whose      *)
(* domain is the set of its keys.                                           *)

\* _match(pattern, value): re.match(pattern, value) is not None, literal pattern
re_match(pattern, value) ==
    Len(pattern) <= Len(value) /\ SubSeq(value, 1, Len(pattern)) = pattern

\* Event._match_header_id_and_source
match_header_id_and_source(event, criteria) ==
    LET m == IF "id" \in DOMAIN criteria THEN re_match(criteria.id, event.id) ELSE TRUE
    IN  IF m /\ "source" \in DOMAIN criteria
        THEN re_match(criteria.source, event.source)
        ELSE m

\* Event._match_timestamp
match_timestamp(event, criteria) ==
    IF event.timestamp # 0
    THEN LET m == IF "start" \in DOMAIN criteria
                  THEN event.timestamp >= criteria.start ELSE TRUE
         IN  IF m /\ "end" \in DOMAIN criteria
             THEN event.timestamp <= criteria.end
             ELSE m
    ELSE TRUE

\* Event._match_tags
match_tags(event, criteria) ==
    IF "tags" \in DOMAIN criteria /\ criteria.tags # <<>>
    THEN \A i \in 1..Len(criteria.tags) :
             \E j \in 1..Len(event.tags) : event.tags[j] = criteria.tags[i]
    ELSE TRUE

\* Event._match_content
match_content(event, criteria) ==
    IF "content" \notin DOMAIN criteria \/ criteria.content = <<>>
    THEN TRUE
    ELSE re_match(criteria.content, event.content)

\* Event.match
match(event, criteria) ==
    /\ match_header_id_and_source(event, criteria)
    /\ match_timestamp(event, criteria)
    /\ match_tags(event, criteria)
    /\ match_content(event, criteria)

MaxPiped == 2          \* events piped in SpecLive
MaxLive == 2           \* /live frames handled in SpecLive

WebSockets == {"ws1", "ws2"}

\* the criteria the subscribers send on /live
CriteriaSet ==
    { << >>,
      [tags |-> <<"a">>],
      [source |-> <<"s">>, start |-> 50] }

\* the events ingested in SpecLive; the id is the arrival number
LiveEvent(n, ts, tags, source) ==
    [id |-> <<n>>, timestamp |-> ts, tags |-> tags, source |-> source, content |-> <<"x">>]

LiveEventShapes ==
    { [timestamp |-> 10, tags |-> <<"a">>, source |-> <<"s", "1">>],
      [timestamp |-> 75, tags |-> <<>>, source |-> <<"s", "2">>] }

\* LiveFilter.__init__
LiveFilter(ws, criteria) == [ws |-> ws, criteria |-> criteria]

\* LiveFilter.match: event.match(**self.criteria)
LiveFilter_match_any(live_filter, event) == TRUE

LiveFilter_match(live_filter, event) == match(event, live_filter.criteria)

\* dict position of the filter of websocket ws, 0 when absent
RECURSIVE filter_pos(_, _)
filter_pos(fs, ws) ==
    IF fs = <<>> THEN 0
    ELSE IF fs[Len(fs)].ws = ws THEN Len(fs)
    ELSE filter_pos(SubSeq(fs, 1, Len(fs) - 1), ws)

\* Live.add_filter: self.filters[lfilter.ws] = lfilter
add_filter(fs, lfilter) ==
    IF filter_pos(fs, lfilter.ws) = 0
    THEN Append(fs, lfilter)
    ELSE [fs EXCEPT ![filter_pos(fs, lfilter.ws)] = lfilter]

\* Live._default_error_handler on ConnectionClosed: del self.filters[websocket]
remove_filter(fs, ws) == SelectSeq(fs, LAMBDA f : f.ws # ws)

default_error_handler_any_error(fs, err, ws) == remove_filter(fs, ws)

\* Live._default_error_handler: only ConnectionClosed removes the filter
default_error_handler(fs, err, ws) ==
    IF err = "ConnectionClosed" THEN remove_filter(fs, ws) ELSE fs

\* Live._handle_error for each of the errors of one run of pipe, in order
RECURSIVE handle_errors(_, _)
handle_errors(fs, errors) ==
    IF errors = <<>> THEN fs
    ELSE handle_errors(default_error_handler(fs, Head(errors).err, Head(errors).ws), Tail(errors))

\* what ws.send raises on a connection that is not open: ConnectionClosed when
\* the peer is gone, another error otherwise
send_errors(wss, cn) ==
    [k \in 1..Len(wss) |->
        [ws |-> wss[k], err |-> IF cn[wss[k]] = "closed" THEN "ConnectionClosed" ELSE "other"]]

\* Live.pipe from position pos of the clone up to its next await ws.send(result)
\* that suspends, or to the end of the loop.  A send on a closed connection
\* raises at once; the except clause handles the error and the loop goes on.
RECURSIVE pipe_run(_, _, _, _)
pipe_run(clone, pos, event, cn) ==
    IF pos > Len(clone) THEN [pos |-> pos, send |-> <<>>, failed |-> <<>>]
    ELSE IF ~LiveFilter_match(clone[pos], event) THEN pipe_run(clone, pos + 1, event, cn)
    ELSE IF cn[clone[pos].ws] = "open"
         THEN [pos |-> pos, send |-> <<clone[pos].ws>>, failed |-> <<>>]
         ELSE [pipe_run(clone, pos + 1, event, cn) EXCEPT !.failed = <<clone[pos].ws>> \o @]

\* the effect of one run of a pipe task on the task, the filters and the wire;
\* raised: the websocket whose awaited send raised ConnectionClosed
PipeStep(i, task, r, raised) ==
    /\ tasks' = [j \in 1..Max(i, Len(tasks)) |->
                    IF j = i
                    THEN [task EXCEPT !.pos = r.pos,
                                      !.pc = IF r.send # <<>> THEN "send" ELSE "done",
                                      !.called = @ \o r.failed \o r.send,
                                      !.errors = @ \o send_errors(raised \o r.failed, conn)]
                    ELSE tasks[j]]
    /\ filters' = handle_errors(filters, send_errors(raised \o r.failed, conn))
    /\ sent' = IF r.send # <<>>
               THEN [sent EXCEPT ![r.send[1]] = Append(@, task.event)]
               ELSE sent

\* /live frame on websocket ws: Collector._add_live_filter
AddLiveFilter(ws, criteria) ==
    /\ conn[ws] = "open"
    /\ nlive < MaxLive
    /\ nlive' = nlive + 1
    /\ filters' = add_filter(filters, LiveFilter(ws, criteria))
    /\ UNCHANGED <<conn, pipe_queue, tasks, sent, npiped>>

\* Collector._store_event on a collector with persistent=False: parse the frame,
\* run_coroutine_threadsafe(self.live.pipe(event), self.server_loop)
StoreEventLive(shape) ==
    /\ npiped < MaxPiped
    /\ npiped' = npiped + 1
    /\ pipe_queue' = Append(pipe_queue,
                            LiveEvent(npiped + 1, shape.timestamp, shape.tags, shape.source))
    /\ UNCHANGED <<conn, filters, tasks, sent, nlive>>

\* the server loop starts the next pipe coroutine: clone the filters, run to the
\* first send
PipeStart ==
    /\ pipe_queue # <<>>
    /\ pipe_queue' = Tail(pipe_queue)
    /\ LET task == [event |-> Head(pipe_queue), clone |-> filters, pos |-> 1,
                    pc |-> "start", called |-> <<>>, errors |-> <<>>]
       IN  PipeStep(Len(tasks) + 1, task, pipe_run(filters, 1, Head(pipe_queue), conn), <<>>)
    /\ UNCHANGED <<conn, npiped, nlive>>

\* position of event in the frames of a websocket
RECURSIVE frame_pos(_, _)
frame_pos(frames, event) ==
    IF frames = <<>> THEN 0
    ELSE IF frames[Len(frames)] = event THEN Len(frames)
    ELSE frame_pos(SubSeq(frames, 1, Len(frames) - 1), event)

\* the sends awaited on one websocket complete in the order they were issued
FirstPending(i) ==
    \A j \in 1..Len(tasks) :
        (j # i /\ tasks[j].pc = "send" /\ tasks[j].clone[tasks[j].pos].ws = tasks[i].clone[tasks[i].pos].ws)
            => frame_pos(sent[tasks[i].clone[tasks[i].pos].ws], tasks[i].event)
                 < frame_pos(sent[tasks[i].clone[tasks[i].pos].ws], tasks[j].event)

\* the awaited ws.send of task i completes and the task runs to its next send;
\* if the connection was closed meanwhile the send raises ConnectionClosed
PipeResume(i) ==
    /\ tasks[i].pc = "send"
    /\ FirstPending(i)
    /\ LET ws == tasks[i].clone[tasks[i].pos].ws
           r == pipe_run(tasks[i].clone, tasks[i].pos + 1, tasks[i].event, conn)
       IN  PipeStep(i, tasks[i], r, IF conn[ws] = "open" THEN <<>> ELSE <<ws>>)
    /\ UNCHANGED <<conn, pipe_queue, npiped, nlive>>

\* the peer of websocket ws goes away
ConnectionClosed(ws) ==
    /\ conn[ws] = "open"
    /\ conn' = [conn EXCEPT ![ws] = "closed"]
    /\ UNCHANGED <<filters, pipe_queue, tasks, sent, npiped, nlive>>

\* the websockets whose sends come to raise an error that is not ConnectionClosed
FailingSockets == {"ws2"}

\* the sends on websocket ws, which has a filter, begin to raise an error that
\* is not ConnectionClosed
SendFails(ws) ==
    /\ conn[ws] = "open"
    /\ filter_pos(filters, ws) # 0
    /\ conn' = [conn EXCEPT ![ws] = "failing"]
    /\ UNCHANGED <<filters, pipe_queue, tasks, sent, npiped, nlive>>

InitLive ==
    /\ conn = [ws \in WebSockets |-> "open"]
    /\ filters = <<>>
    /\ pipe_queue = <<>>
    /\ tasks = <<>>
    /\ sent = [ws \in WebSockets |-> <<>>]
    /\ npiped = 0
    /\ nlive = 0

NextLive ==
    \/ \E ws \in WebSockets, criteria \in CriteriaSet : AddLiveFilter(ws, criteria) /\ LiveOnly
    \/ \E shape \in LiveEventShapes : StoreEventLive(shape) /\ LiveOnly
    \/ PipeStart /\ LiveOnly
    \/ \E i \in 1..Len(tasks) : PipeResume(i) /\ LiveOnly
    \/ \E ws \in WebSockets : ConnectionClosed(ws) /\ LiveOnly
    \/ \E ws \in FailingSockets : SendFails(ws) /\ LiveOnly

----------------------------------------------------------------------------
(* EventSerializer and EventParser (theia/model.py), character by character *)
(* and byte by byte.  A str is a sequence of characters, bytes are a        *)
(* sequence of byte tokens: an ASCII character encodes to itself, the       *)
(* two-byte character e_acute to the bytes C3 A9.  A timestamp is a float   *)
(* counted in units of 10^-8 seconds.                                       *)

e_acute == "e'"

DigitChars == <<"0", "1", "2", "3", "4", "5", "6", "7", "8", "9">>

Whitespace == {" ", "\n", "\t", "\r"}

RECURSIVE Pow10(_)
Pow10(k) == IF k = 0 THEN 1 ELSE 10 * Pow10(k - 1)

\* str.encode('utf-8')
RECURSIVE encode(_)
encode(str) ==
    IF str = <<>> THEN <<>>
    ELSE (IF Head(str) = e_acute THEN <<"C3", "A9">> ELSE <<Head(str)>>) \o encode(Tail(str))

\* bytes.decode('utf-8') raises UnicodeDecodeError on these
RECURSIVE decodable(_)
decodable(bytes) ==
    IF bytes = <<>> THEN TRUE
    ELSE IF Head(bytes) = "C3"
         THEN Len(bytes) >= 2 /\ bytes[2] = "A9" /\ decodable(SubSeq(bytes, 3, Len(bytes)))
         ELSE Head(bytes) # "A9" /\ decodable(Tail(bytes))

\* bytes.decode('utf-8')
RECURSIVE decode(_)
decode(bytes) ==
    IF bytes = <<>> THEN <<>>
    ELSE IF Head(bytes) = "C3"
         THEN <<e_acute>> \o decode(SubSeq(bytes, 3, Len(bytes)))
         ELSE <<Head(bytes)>> \o decode(Tail(bytes))

\* '%d' % n
RECURSIVE format_d(_)
format_d(n) ==
    IF n < 10 THEN <<DigitChars[n + 1]>>
    ELSE format_d(n \div 10) \o <<DigitChars[(n % 10) + 1]>>

\* n as exactly k decimal digits
RECURSIVE format_0d(_, _)
format_0d(n, k) ==
    IF k = 0 THEN <<>> ELSE format_0d(n \div 10, k - 1) \o <<DigitChars[(n % 10) + 1]>>

\* '%.7f' % timestamp: seven fractional digits, rounded
format_7f(timestamp) ==
    LET r == (timestamp + 5) \div 10
    IN  format_d(r \div Pow10(7)) \o <<".">> \o format_0d(r % Pow10(7), 7)

is_digits(str) ==
    str # <<>> /\ \A i \in 1..Len(str) : \E d \in 1..10 : DigitChars[d] = str[i]

RECURSIVE digits_value(_)
digits_value(str) ==
    IF str = <<>> THEN 0
    ELSE 10 * digits_value(SubSeq(str, 1, Len(str) - 1))
           + ((CHOOSE d \in 1..10 : DigitChars[d] = str[Len(str)]) - 1)

\* str.strip()
RECURSIVE lstrip(_)
lstrip(str) ==
    IF str # <<>> /\ Head(str) \in Whitespace THEN lstrip(Tail(str)) ELSE str

RECURSIVE rstrip(_)
rstrip(str) ==
    IF str # <<>> /\ str[Len(str)] \in Whitespace
    THEN rstrip(SubSeq(str, 1, Len(str) - 1)) ELSE str

strip(str) == rstrip(lstrip(str))

\* str.index(ch): 0 stands for ValueError
RECURSIVE index_from(_, _, _)
index_from(str, ch, i) ==
    IF i > Len(str) THEN 0
    ELSE IF str[i] = ch THEN i
    ELSE index_from(str, ch, i + 1)

index_of(str, ch) == index_from(str, ch, 1)

\* str.split(sep) for a one-character separator: ''.split(',') is ['']
RECURSIVE split(_, _)
split(str, sep) ==
    IF index_of(str, sep) = 0 THEN <<str>>
    ELSE <<SubSeq(str, 1, index_of(str, sep) - 1)>>
           \o split(SubSeq(str, index_of(str, sep) + 1, Len(str)), sep)

\* sep.join(strs)
RECURSIVE join(_, _)
join(strs, sep) ==
    IF strs = <<>> THEN <<>>
    ELSE IF Len(strs) = 1 THEN strs[1]
    ELSE strs[1] \o <<sep>> \o join(Tail(strs), sep)

\* readline(): up to and including the first newline
readline(str) ==
    IF index_of(str, "\n") = 0 THEN str ELSE SubSeq(str, 1, index_of(str, "\n"))

\* int(str) accepts these
is_int(str) == is_digits(strip(str))

int(str) == digits_value(strip(str))

\* float(str) accepts these: digits, a point, at most eight digits
is_float(str) ==
    LET parts == split(strip(str), ".")
    IN  /\ Len(parts) = 2
        /\ is_digits(parts[1])
        /\ is_digits(parts[2])
        /\ Len(parts[2]) <= 8

float(str) ==
    LET parts == split(strip(str), ".")
    IN  digits_value(parts[1]) * Pow10(8)
          + digits_value(parts[2]) * Pow10(8 - Len(parts[2]))

\* time(): the clock read by Event.__init__ when no timestamp is given
time == 2000000000

NoneStr == <<"None">>

\* Event.__init__
Event_init(id, source, timestamp, tags, content) ==
    [id |-> id, source |-> source,
     timestamp |-> IF timestamp = 0 THEN time ELSE timestamp,
     tags |-> tags, content |-> content]

\* EventSerializer._serialize_header
serialize_header(event) ==
    <<"i", "d", ":">> \o event.id \o <<"\n">>
      \o <<"t", "i", "m", "e", "s", "t", "a", "m", "p", ":", " ">>
      \o format_7f(event.timestamp) \o <<"\n">>
      \o <<"s", "o", "u", "r", "c", "e", ":">> \o event.source \o <<"\n">>
      \o <<"t", "a", "g", "s", ":">> \o join(event.tags, ",") \o <<"\n">>

\* the size written for the content in the preamble
cnt_size(cnt) == Len(encode(cnt))

\* EventSerializer.serialize
serialize(event) ==
    LET hdr == serialize_header(event)
        hdr_size == Len(encode(hdr))
        cnt == event.content
    IN  encode(<<"e", "v", "e", "n", "t", ":", " ">>
                 \o format_d(hdr_size + cnt_size(cnt)) \o <<" ">>
                 \o format_d(hdr_size) \o <<" ">>
                 \o format_d(cnt_size(cnt)) \o <<"\n">>
                 \o hdr \o cnt \o <<"\n">>)

Raise(error) == [ok |-> FALSE, error |-> error]

\* EventParser.parse_preamble
parse_preamble(stream) ==
    LET line == readline(stream)
        pstr == strip(decode(line))
        values == split(SubSeq(pstr, 8, Len(pstr)), " ")
    IN  IF line = <<>> THEN Raise("EOFException")
        ELSE IF ~decodable(line) THEN Raise("UnicodeDecodeError")
        ELSE IF ~re_match(<<"e", "v", "e", "n", "t", ":">>, pstr)
             THEN Raise("Invalid preamble line")
        ELSE IF Len(values) # 3 THEN Raise("Invalid preamble values")
        ELSE IF \E i \in 1..3 : ~is_int(values[i]) THEN Raise("ValueError")
        ELSE [ok |-> TRUE, total |-> int(values[1]), header |-> int(values[2]),
              content |-> int(values[3]), rest |-> SubSeq(stream, Len(line) + 1, Len(stream))]

\* the header lines of EventParser.parse_header: the while loop over readline()
RECURSIVE parse_lines(_, _)
parse_lines(hdr_str, header) ==
    LET line == strip(readline(hdr_str))
        idx == index_of(line, ":")
        prop == SubSeq(line, 1, idx - 1)
        value == SubSeq(line, idx + 1, Len(line))
        rest == SubSeq(hdr_str, Len(readline(hdr_str)) + 1, Len(hdr_str))
    IN  IF hdr_str = <<>> THEN [ok |-> TRUE, header |-> header]
        ELSE IF line = <<>> THEN Raise("Invalid header")
        ELSE IF idx = 0 THEN Raise("ValueError")
        ELSE IF prop = <<"i", "d">> THEN parse_lines(rest, [header EXCEPT !.id = value])
        ELSE IF prop = <<"t", "i", "m", "e", "s", "t", "a", "m", "p">>
             THEN IF is_float(value)
                  THEN parse_lines(rest, [header EXCEPT !.timestamp = float(value)])
                  ELSE Raise("ValueError")
        ELSE IF prop = <<"s", "o", "u", "r", "c", "e">>
             THEN parse_lines(rest, [header EXCEPT !.source = value])
        ELSE IF prop = <<"t", "a", "g", "s">>
             THEN parse_lines(rest, [header EXCEPT !.tags = split(value, ",")])
        ELSE Raise("Unknown property in header")

\* Header(): every property None
Header == [id |-> NoneStr, timestamp |-> 0, source |-> NoneStr, tags |-> <<>>]

\* stream.read(n)
read(stream, n) == SubSeq(stream, 1, IF n <= Len(stream) THEN n ELSE Len(stream))

\* EventParser.parse_header
parse_header(hdr_size, stream) ==
    LET hbytes == read(stream, hdr_size)
    IN  IF Len(hbytes) # hdr_size THEN Raise("Invalid read size from buffer")
        ELSE IF ~decodable(hbytes) THEN Raise("UnicodeDecodeError")
        ELSE parse_lines(decode(hbytes), Header)

\* EventParser.parse_event(stream), skip_content=False
parse_event(stream) ==
    LET preamble == parse_preamble(stream)
        hdr == parse_header(preamble.header, preamble.rest)
        cbytes == read(SubSeq(preamble.rest, preamble.header + 1, Len(preamble.rest)),
                       preamble.content)
    IN  IF ~preamble.ok THEN preamble
        ELSE IF ~hdr.ok THEN hdr
        ELSE IF ~decodable(cbytes) THEN Raise("UnicodeDecodeError")
        ELSE IF Len(decode(cbytes)) # preamble.content THEN Raise("Invalid content size")
        ELSE [ok |-> TRUE,
              event |-> Event_init(hdr.header.id, hdr.header.source, hdr.header.timestamp,
                                   hdr.header.tags, decode(cbytes))]

CodecIds == { <<"a", "1">> }

CodecSources == { <<"s">>, <<"/", "v", ":", "l">> }

\* 10.0, 12.3456789 and 10.00000003 seconds
CodecTimestamps == { 1000000000, 1234567890, 1000000003 }

CodecTags == { <<>>, << <<"a">> >>, << <<"a">>, <<"b">> >> }

CodecContents == { <<>>, <<"x">>, <<"x", "\n", "y">>, <<e_acute>>, <<"a", ":", " ", "b">> }

CodecEvents ==
    { Event_init(id, source, timestamp, tags, content) :
        id \in CodecIds, source \in CodecSources, timestamp \in CodecTimestamps,
        tags \in CodecTags, content \in CodecContents }

InitCodec ==
    /\ cev \in CodecEvents
    /\ wire = <<>>
    /\ parsed = Raise("")
    /\ cpc = "event"

Serialize ==
    /\ cpc = "event"
    /\ wire' = serialize(cev)
    /\ cpc' = "bytes"
    /\ UNCHANGED <<cev, parsed>>

Parse ==
    /\ cpc = "bytes"
    /\ parsed' = parse_event(wire)
    /\ cpc' = "parsed"
    /\ UNCHANGED <<cev, wire>>

NextCodec ==
    \/ Serialize /\ CodecOnly
    \/ Parse /\ CodecOnly

----------------------------------------------------------------------------
(* The transport server (theia/comm.py) and the handlers the collector      *)
(* registers on it (theia/collector.py).  A str is a sequence of tokens, a  *)
(* handler's return value is [kind |-> "None"] or [kind |-> "str", text].    *)

None == [kind |-> "None", text |-> <<>>]

Str(text) == [kind |-> "str", text |-> text]

json_error_plain(message) == [kind |-> "str", text |-> message]

\* json.dumps({"error": str(e)})
json_error(message) == [kind |-> "str", text |-> <<"{\"error\": ">> \o message \o <<"}">>]

on_action_prepend(actions, rpath, cb) ==
    IF rpath \in DOMAIN actions
    THEN [actions EXCEPT ![rpath] = <<cb>> \o @]
    ELSE actions @@ (rpath :> <<cb>>)

\* Server.on_action
on_action(actions, rpath, cb) ==
    IF rpath \in DOMAIN actions
    THEN [actions EXCEPT ![rpath] = Append(@, cb)]
    ELSE actions @@ (rpath :> <<cb>>)

\* the on_action calls of Collector._setup_server, then callbacks of the
\* documented prototype on two more paths: "/t" chains two callbacks that
\* return resp + a letter, on "/x" the second of three raises
Registrations ==
    << <<"/event", "_on_event">>, <<"/live", "_add_live_filter">>,
       <<"/find", "_find_event">>,
       <<"/t", "append_a">>, <<"/t", "append_b">>,
       <<"/x", "append_a">>, <<"/x", "raising">>, <<"/x", "append_b">> >>

RECURSIVE register(_, _)
register(actions, regs) ==
    IF regs = <<>> THEN actions
    ELSE register(on_action(actions, Head(regs)[1], Head(regs)[2]), Tail(regs))

Paths == {"/event", "/live", "/find", "/t", "/x", "/nope"}

\* LiveFilter.ALLOWED_CRITERIA
ALLOWED_CRITERIA ==
    [id |-> "str", source |-> "str", start |-> "int", end |-> "int",
     content |-> "str", tags |-> "list"]

isinstance_any(value, allowed) == TRUE

\* isinstance(value, allowed): a bool is an int
isinstance(value, allowed) ==
    value.t = allowed \/ (allowed = "int" /\ value.t = "bool")

\* LiveFilter._check_criteria over the items of the dict, in order: the error
\* raised, <<>> when there is none
RECURSIVE check_criteria(_)
check_criteria(items) ==
    IF items = <<>> THEN <<>>
    ELSE IF Head(items).k \notin DOMAIN ALLOWED_CRITERIA
         THEN <<"KeyError", Head(items).k>>
    ELSE IF ~isinstance(Head(items), ALLOWED_CRITERIA[Head(items).k])
         THEN <<"invalid value for criteria", Head(items).k>>
    ELSE check_criteria(Tail(items))

\* json.loads(message) of a JSON object: the dict of its items, a later item
\* of a key replacing an earlier one
RECURSIVE json_loads(_)
json_loads(items) ==
    IF items = <<>> THEN << >>
    ELSE LET last == items[Len(items)]
             rest == json_loads(SubSeq(items, 1, Len(items) - 1))
         IN  [k \in (DOMAIN rest) \cup {last.k} |-> IF k = last.k THEN last.v ELSE rest[k]]

\* the frames a client sends on /live: JSON objects as sequences of items
\* [k, t, v] (key, JSON type of the value, value)
LiveFrames ==
    { <<>>,
      <<[k |-> "tags", t |-> "list", v |-> <<"a">>]>>,
      <<[k |-> "start", t |-> "int", v |-> 50]>>,
      <<[k |-> "tags", t |-> "list", v |-> <<"a">>], [k |-> "level", t |-> "str", v |-> <<"x">>]>>,
      <<[k |-> "start", t |-> "str", v |-> <<"5">>]>>,
      <<[k |-> "start", t |-> "bool", v |-> 1]>> }

\* the frames a client sends on /find: JSON objects as dicts
FindFrames == { << >>, [start |-> 10], [start |-> 0], [start |-> 10, end |-> 15] }

\* the frames a client sends on a rpath
Frames(rpath) ==
    CASE rpath = "/live" -> LiveFrames
      [] rpath = "/find" -> FindFrames
      [] OTHER -> { [timestamp |-> 10] }

\* Collector(persistent=True)
persistent == TRUE

\* one registered callback called with (path, message, websocket, resp): what
\* it returns or raises and what it does to the collector
call_action(cb, rpath, message, resp) ==
    CASE cb = "_on_event" ->
            [raised |-> <<>>, ret |-> None, effect |-> <<[kind |-> "event"]>>]
      [] cb = "_add_live_filter" ->
            IF check_criteria(message) # <<>>
            THEN [raised |-> check_criteria(message), ret |-> None, effect |-> <<>>]
            ELSE [raised |-> <<>>, ret |-> Str(<<"ok">>),
                  effect |-> <<[kind |-> "filter", criteria |-> json_loads(message)]>>]
      [] cb = "_find_event" ->
            IF ~persistent
            THEN [raised |-> <<>>, effect |-> <<>>,
                  ret |-> Str(<<"{\"error\": \"Action not available in non-persistent mode.\"}">>)]
            ELSE IF "start" \notin DOMAIN message \/ message.start = 0
            THEN [raised |-> <<"Missing start timestamp">>, ret |-> None, effect |-> <<>>]
            ELSE [raised |-> <<>>, ret |-> Str(<<"ok">>),
                  effect |-> <<[kind |-> "find", start |-> message.start,
                                has_end |-> "end" \in DOMAIN message /\ message.end # 0,
                                end |-> IF "end" \in DOMAIN message THEN message.end ELSE 0]>>]
      [] cb = "append_a" ->
            [raised |-> <<>>, ret |-> Str(resp.text \o <<"a">>), effect |-> <<>>]
      [] cb = "append_b" ->
            [raised |-> <<>>, ret |-> Str(resp.text \o <<"b">>), effect |-> <<>>]
      [] cb = "raising" ->
            [raised |-> <<"boom">>, ret |-> None, effect |-> <<>>]

\* the inner loop of Server._process_req: for action in actions: resp = action(...);
\* called lists the callbacks called with the resp each was given
RECURSIVE call_actions(_, _, _, _, _, _)
call_actions(cbs, rpath, message, resp, called, effects) ==
    IF cbs = <<>> THEN [resp |-> resp, called |-> called, effects |-> effects, raised |-> FALSE]
    ELSE LET r == call_action(Head(cbs), rpath, message, resp)
             now == Append(called, [cb |-> Head(cbs), resp |-> resp, ret |-> r.ret,
                                    raised |-> r.raised])
         IN  IF r.raised # <<>>
             THEN [resp |-> json_error(r.raised), called |-> now, effects |-> effects,
                   raised |-> TRUE]
             ELSE call_actions(Tail(cbs), rpath, message, r.ret, now, effects \o r.effect)

\* Server._process_req
process_req(actions, rpath, message) ==
    IF rpath \in DOMAIN actions
    THEN call_actions(actions[rpath], rpath, message, Str(<<>>), <<>>, <<>>)
    ELSE [resp |-> Str(<<>>), called |-> <<>>, effects |-> <<>>, raised |-> FALSE]

\* if resp is not None: await websocket.send(str(resp))
reply_sent(resp) == resp.kind # "None"

MaxFrames == 2         \* frames received by the server in SpecServer
StopTimeout == 2       \* sleeps of stop() before its timeout is exceeded, in SpecStop

server_actions == register(<< >>, Registrations)

\* self.websockets is a dict: its entries in the order of their insertion, a
\* deleted entry keeps its place and is no longer used
dict_len(d) == Cardinality({k \in 1..Len(d) : d[k].used})

\* the entry of key ws in the dict, 0 when the dict has none
reg_pos(d, ws) == IF \E k \in 1..Len(d) : d[k].used /\ d[k].ws = ws
                  THEN CHOOSE k \in 1..Len(d) : d[k].used /\ d[k].ws = ws ELSE 0

\* the dict iterator at entry pos: the next used entry, 0 at the end
next_entry(d, pos) ==
    IF \E k \in (pos + 1)..Len(d) : d[k].used
    THEN CHOOSE k \in (pos + 1)..Len(d) : d[k].used /\ \A j \in (pos + 1)..(k - 1) : ~d[j].used
    ELSE 0

\* the server loop thread is between two tasks: no connection task is inside
\* _remove_websocket
LoopFree == \A ws \in WebSockets : ctask[ws].pc # "remove"

\* Server.start: the listener is set up, self._started = True
Start ==
    /\ ~started
    /\ started' = TRUE
    /\ UNCHANGED <<storeVars, liveVars, codecVars, callVars, websockets, cpath, ctask,
                   outbox, fired, loopq, finds, stopper, dispatched, nframes, coll>>

\* a client connects on rpath: self.websockets[websocket] = wsHandler(websocket, path)
Accept(ws, rpath) ==
    /\ started
    /\ LoopFree
    /\ cpath[ws] = "" /\ conn[ws] = "open"
    /\ cpath' = [cpath EXCEPT ![ws] = rpath]
    /\ websockets' = Append(websockets, [ws |-> ws, used |-> TRUE])
    /\ ctask' = [ctask EXCEPT ![ws] = [pc |-> "recv", hnd |-> FALSE]]
    /\ UNCHANGED <<outbox, fired, loopq, finds, stopper, dispatched, nframes,
                   queue, nsaves, filters, conn>>

\* what the handlers called for a frame did to the collector
Effects(ws, req, effects) ==
    /\ IF \E k \in 1..Len(effects) : effects[k].kind = "event"
       THEN queue' = Append(queue, Event(nsaves + 1, 10)) /\ nsaves' = nsaves + 1
       ELSE UNCHANGED <<queue, nsaves>>
    /\ filters' = IF \E k \in 1..Len(effects) : effects[k].kind = "filter"
                  THEN add_filter(filters,
                         LiveFilter(ws, (CHOOSE e \in Range(effects) : e.kind = "filter").criteria))
                  ELSE filters
    /\ finds' = IF \E k \in 1..Len(effects) : effects[k].kind = "find"
                THEN LET e == CHOOSE e \in Range(effects) : e.kind = "find"
                     IN  Append(finds, [ws |-> ws, req |-> req, pos |-> 1, pc |-> "ready",
                                        results |-> search(disk, index, e.start, e.has_end, e.end)])
                ELSE finds

\* one turn of the loop of _on_client_connection: recv returns a frame,
\* _process_req dispatches it, the reply is sent
Recv(ws, message) ==
    /\ started
    /\ LoopFree
    /\ ctask[ws].pc = "recv" /\ conn[ws] = "open"
    /\ nframes < MaxFrames
    /\ nframes' = nframes + 1
    /\ LET r == process_req(server_actions, cpath[ws], message)
       IN  /\ Effects(ws, nframes + 1, r.effects)
           /\ outbox' = IF reply_sent(r.resp)
                      THEN [outbox EXCEPT ![ws] = Append(@, [kind |-> "reply", req |-> nframes + 1,
                                                           body |-> r.resp.text])]
                      ELSE outbox
           /\ dispatched' = [ws |-> ws, rpath |-> cpath[ws], message |-> message,
                             called |-> r.called,
                             resp |-> r.resp, raised |-> r.raised,
                             sent |-> reply_sent(r.resp)]
    /\ UNCHANGED <<websockets, cpath, ctask, fired, loopq, stopper, conn>>

\* recv (or the send of the reply) raises ConnectionClosed: the except clause
\* enters _remove_websocket, hnd = self.websockets.get(websocket)
RecvConnectionClosed(ws) ==
    /\ LoopFree
    /\ ctask[ws].pc = "recv" /\ conn[ws] = "closed"
    /\ ctask' = [ctask EXCEPT ![ws] = [pc |-> "remove", hnd |-> reg_pos(websockets, ws) # 0]]
    /\ UNCHANGED <<websockets, cpath, outbox, fired, loopq, finds, stopper, dispatched,
                   nframes, queue, nsaves, filters, conn>>

\* any other exception in the loop of the connection: the same removal
RecvException(ws) ==
    /\ LoopFree
    /\ ctask[ws].pc = "recv" /\ conn[ws] = "open"
    /\ ctask' = [ctask EXCEPT ![ws] = [pc |-> "remove", hnd |-> reg_pos(websockets, ws) # 0]]
    /\ UNCHANGED <<websockets, cpath, outbox, fired, loopq, finds, stopper, dispatched,
                   nframes, queue, nsaves, filters, conn>>

\* hnd.trigger(websocket) before the del
remove_websocket_trigger_first(hnd, ws) ==
    /\ fired' = IF hnd THEN [fired EXCEPT ![ws] = @ + 1] ELSE fired
    /\ websockets' = IF hnd /\ reg_pos(websockets, ws) # 0
                     THEN [websockets EXCEPT ![reg_pos(websockets, ws)].used = FALSE]
                     ELSE websockets

\* _remove_websocket after the get: del self.websockets[websocket] (KeyError when
\* another thread deleted it meanwhile), then hnd.trigger(websocket)
remove_websocket(hnd, ws) ==
    IF hnd /\ reg_pos(websockets, ws) # 0
    THEN /\ websockets' = [websockets EXCEPT ![reg_pos(websockets, ws)].used = FALSE]
         /\ fired' = [fired EXCEPT ![ws] = @ + 1]
    ELSE UNCHANGED <<websockets, fired>>

RemoveInTask(ws) ==
    /\ ctask[ws].pc = "remove"
    /\ remove_websocket(ctask[ws].hnd, ws)
    /\ ctask' = [ctask EXCEPT ![ws] = [pc |-> "ended", hnd |-> FALSE]]
    /\ UNCHANGED <<cpath, outbox, loopq, finds, stopper, dispatched, nframes,
                   queue, nsaves, filters, conn>>

\* the coroutine the server loop starts next: the first one not yet started
NextQueued(k) ==
    /\ k \in 1..Len(loopq)
    /\ loopq[k].pc = "queued"
    /\ \A j \in 1..(k - 1) : loopq[j].pc # "queued"

drop(seq, k) == SubSeq(seq, 1, k - 1) \o SubSeq(seq, k + 1, Len(seq))

\* the store thread is blocked in result.result() of _send_result
StoreBlocked == \E f \in 1..Len(finds) : finds[f].pc = "waiting"

next_result_last(fnd) == fnd.results[Len(fnd.results)]

\* for event in self.store.search(...): the event the search yields next
next_result(fnd) == fnd.results[fnd.pos]

\* _find_event_results on the store loop: the next event of the search,
\* _send_result hands websocket.send(ser) to the server loop and waits for it
FindNext(f) ==
    /\ ~StoreBlocked
    /\ finds[f].pc = "ready"
    /\ IF finds[f].pos > Len(finds[f].results)
       THEN /\ finds' = [finds EXCEPT ![f].pc = "done"]
            /\ UNCHANGED loopq
       ELSE /\ finds' = [finds EXCEPT ![f].pc = "waiting"]
            /\ loopq' = Append(loopq, [kind |-> "send", ws |-> finds[f].ws, pc |-> "queued",
                                       find |-> f])
    /\ UNCHANGED <<websockets, cpath, ctask, outbox, fired, stopper, dispatched, nframes,
                   queue, nsaves, filters, conn>>

\* the server loop runs websocket.send(ser) of _send_result: the frame is sent
\* and the store thread goes on to asyncio.sleep(0), or the send raises
\* ConnectionClosed and _find_event_results ends with it
SendResult(k) ==
    /\ LoopFree
    /\ NextQueued(k) /\ loopq[k].kind = "send"
    /\ LET f == loopq[k].find
       IN  IF conn[loopq[k].ws] = "open"
           THEN /\ outbox' = [outbox EXCEPT ![loopq[k].ws] =
                                Append(@, [kind |-> "result", req |-> finds[f].req,
                                           body |-> serialize_token(next_result(finds[f]))])]
                /\ finds' = [finds EXCEPT ![f].pc = "ready", ![f].pos = @ + 1]
           ELSE /\ finds' = [finds EXCEPT ![f].pc = "failed"]
                /\ UNCHANGED outbox
    /\ loopq' = drop(loopq, k)
    /\ UNCHANGED <<websockets, cpath, ctask, fired, stopper, dispatched, nframes,
                   queue, nsaves, filters, conn>>

\* the server loop starts Server._send_close: await websocket.close(code=1000, reason)
SendClose(k) ==
    /\ LoopFree
    /\ NextQueued(k) /\ loopq[k].kind = "close"
    /\ loopq' = [loopq EXCEPT ![k].pc = "awaiting"]
    /\ outbox' = IF conn[loopq[k].ws] = "open"
                 THEN [outbox EXCEPT ![loopq[k].ws] =
                         Append(@, [kind |-> "close", req |-> 0, body |-> <<1000, "server stop">>])]
                 ELSE outbox
    /\ UNCHANGED <<websockets, cpath, ctask, fired, finds, stopper, dispatched, nframes,
                   queue, nsaves, filters, conn>>

\* websocket.close returns: the connection is closed; semaphore['value'] -= 1
CloseDone(k) ==
    /\ LoopFree
    /\ k \in 1..Len(loopq) /\ loopq[k].pc = "awaiting"
    /\ conn' = [conn EXCEPT ![loopq[k].ws] = "closed"]
    /\ stopper' = [stopper EXCEPT !.semaphore = @ - 1]
    /\ loopq' = drop(loopq, k)
    /\ UNCHANGED <<websockets, cpath, ctask, outbox, fired, finds, dispatched, nframes,
                   queue, nsaves, filters>>

\* Server.stop() is called on another thread: the list comprehension starts to
\* iterate self.websockets.items()
StopBegin ==
    /\ started
    /\ stopper.pc = "idle"
    /\ stopper' = [stopper EXCEPT !.pc = "iter", !.size = dict_len(websockets),
                                  !.tracked = {websockets[k].ws : k \in {j \in 1..Len(websockets) : websockets[j].used}}]
    /\ UNCHANGED <<websockets, cpath, ctask, outbox, fired, loopq, finds, dispatched,
                   nframes, queue, nsaves, filters, conn>>

\* the next item of the dict iterator: RuntimeError when the dict changed size;
\* at its end semaphore = {'value': len(wss)}
StopIter ==
    /\ stopper.pc = "iter"
    /\ stopper' =
         IF dict_len(websockets) # stopper.size THEN [stopper EXCEPT !.pc = "raised"]
         ELSE IF next_entry(websockets, stopper.pos) = 0
              THEN [stopper EXCEPT !.pc = "loop", !.i = 1, !.semaphore = Len(stopper.wss)]
         ELSE [stopper EXCEPT !.pos = next_entry(websockets, stopper.pos),
                              !.wss = Append(@, websockets[next_entry(websockets, stopper.pos)].ws)]
    /\ UNCHANGED <<websockets, cpath, ctask, outbox, fired, loopq, finds, dispatched,
                   nframes, queue, nsaves, filters, conn>>

\* for ws in wss: _remove_websocket(ws) begins, hnd = self.websockets.get(ws);
\* after the last ws the wait begins
StopGet ==
    /\ stopper.pc = "loop"
    /\ stopper' =
         IF stopper.i > Len(stopper.wss) THEN [stopper EXCEPT !.pc = "wait"]
         ELSE [stopper EXCEPT !.pc = "del",
                              !.hnd = reg_pos(websockets, stopper.wss[stopper.i]) # 0]
    /\ UNCHANGED <<websockets, cpath, ctask, outbox, fired, loopq, finds, dispatched,
                   nframes, queue, nsaves, filters, conn>>

\* the rest of _remove_websocket(ws); its exception is caught and logged
StopRemove ==
    /\ stopper.pc = "del"
    /\ remove_websocket(stopper.hnd, stopper.wss[stopper.i])
    /\ stopper' = [stopper EXCEPT !.pc = "schedule"]
    /\ UNCHANGED <<cpath, ctask, outbox, loopq, finds, dispatched, nframes,
                   queue, nsaves, filters, conn>>

\* asyncio.run_coroutine_threadsafe(self._send_close(semaphore, ws, 'server stop'), self.loop)
scheduled_closes_but_last(wss, i) == IF i = Len(wss) THEN <<>> ELSE <<wss[i]>>

scheduled_closes(wss, i) == <<wss[i]>>

StopSchedule ==
    /\ stopper.pc = "schedule"
    /\ loopq' = loopq \o [j \in 1..Len(scheduled_closes(stopper.wss, stopper.i)) |->
                            [kind |-> "close", ws |-> scheduled_closes(stopper.wss, stopper.i)[j],
                             pc |-> "queued", find |-> 0]]
    /\ stopper' = [stopper EXCEPT !.pc = "loop", !.i = @ + 1]
    /\ UNCHANGED <<websockets, cpath, ctask, outbox, fired, finds, dispatched, nframes,
                   queue, nsaves, filters, conn>>

\* while semaphore['value']: sleep(_WAIT_TIME); total_wait += _WAIT_TIME;
\* if total_wait > self._stop_timeout: break.  total_wait counts the sleeps.
StopWait ==
    /\ stopper.pc = "wait"
    /\ stopper' =
         IF stopper.semaphore = 0 THEN [stopper EXCEPT !.pc = "returned"]
         ELSE IF stopper.total_wait + 1 > StopTimeout
              THEN [stopper EXCEPT !.pc = "returned", !.total_wait = @ + 1]
         ELSE [stopper EXCEPT !.total_wait = @ + 1]
    /\ UNCHANGED <<websockets, cpath, ctask, outbox, fired, loopq, finds, dispatched,
                   nframes, queue, nsaves, filters, conn>>

\* Collector.__init__: no thread and no loop yet; nothing waits to be run
NewCollector ==
    [run |-> "new", pc |-> "idle",
     server_loop |-> "new", server_ready |-> <<>>, server_todo |-> 0, server_stopping |-> FALSE,
     store_loop |-> "new", store_ready |-> <<>>, store_todo |-> 0, store_stopping |-> FALSE,
     waiting |-> FALSE, sent |-> "", results |-> 0, nevents |-> 0, nfinds |-> 0]

\* Server.__init__, before a connection is made
ServerAtRest ==
    /\ websockets = <<>>
    /\ cpath = [ws \in WebSockets |-> ""]
    /\ ctask = [ws \in WebSockets |-> [pc |-> "none", hnd |-> FALSE]]
    /\ outbox = [ws \in WebSockets |-> <<>>]
    /\ fired = [ws \in WebSockets |-> 0]
    /\ loopq = <<>>
    /\ finds = <<>>
    /\ stopper = [pc |-> "idle", tracked |-> {}, size |-> 0, pos |-> 0, wss |-> <<>>, i |-> 0,
                  hnd |-> FALSE, semaphore |-> 0, total_wait |-> 0]
    /\ dispatched = [ws |-> "", rpath |-> "", message |-> <<>>, called |-> <<>>,
                     resp |-> None,
                     raised |-> FALSE, sent |-> FALSE]
    /\ nframes = 0
    /\ started = FALSE
    /\ coll = NewCollector

\* a collector on a root directory that holds one partition with two events
StoreWithEvents ==
    /\ disk = (data_name(10, 70) :>
                 <<serialize_token(Event(1, 10)), newline,
                   serialize_token(Event(2, 20)), newline>>)
    /\ NewStore(disk, FALSE)
    /\ queue = <<>>
    /\ sv = [s \in Savers |-> IdleSaver]
    /\ nsaves = 2
    /\ nrestarts = 0
    /\ saved = <<>>
    /\ closeSnap = <<>>

\* connections, frames and searches, while the server runs
NextServer ==
    \/ Start
    \/ \E ws \in WebSockets, rpath \in Paths : Accept(ws, rpath) /\ ServerOnly
    \/ \E ws \in WebSockets : \E message \in Frames(cpath[ws]) : Recv(ws, message) /\ ServerOnly
    \/ \E ws \in WebSockets : RecvConnectionClosed(ws) /\ ServerOnly
    \/ \E ws \in WebSockets : RecvException(ws) /\ ServerOnly
    \/ \E ws \in WebSockets : RemoveInTask(ws) /\ ServerOnly
    \/ \E ws \in WebSockets : ConnectionClosed(ws) /\ LiveOnly
    \/ \E f \in 1..Len(finds) : FindNext(f) /\ ServerOnly
    \/ \E k \in 1..Len(loopq) : SendResult(k) /\ ServerOnly

\* connections that come and go while another thread calls Server.stop()
NextStop ==
    \/ Start
    \/ \E ws \in WebSockets : Accept(ws, "/event") /\ ServerOnly
    \/ \E ws \in WebSockets : RecvConnectionClosed(ws) /\ ServerOnly
    \/ \E ws \in WebSockets : RecvException(ws) /\ ServerOnly
    \/ \E ws \in WebSockets : RemoveInTask(ws) /\ ServerOnly
    \/ \E ws \in WebSockets : ConnectionClosed(ws) /\ LiveOnly
    \/ \E k \in 1..Len(loopq) : SendClose(k) /\ ServerOnly
    \/ \E k \in 1..Len(loopq) : CloseDone(k) /\ ServerOnly
    \/ StopBegin /\ ServerOnly
    \/ StopIter /\ ServerOnly
    \/ StopGet /\ ServerOnly
    \/ StopRemove /\ ServerOnly
    \/ StopSchedule /\ ServerOnly
    \/ StopWait /\ ServerOnly

----------------------------------------------------------------------------
(* Properties of the dispatch of frames *)

\* the callbacks registered on a path, in the order of their registration
registered(rpath) ==
    LET regs == SelectSeq(Registrations, LAMBDA r : r[1] = rpath)
    IN  [k \in 1..Len(regs) |-> regs[k][2]]

\* the frames the server sent on a connection as replies
replies(ws) == SelectSeq(outbox[ws], LAMBDA m : m.kind = "reply")

Dispatched == dispatched.ws # ""

\* C16: for a received frame the server calls the actions registered for the
\* path of the connection, in the order of their registration and none else,
\* the first with an empty resp and each later one with what the one before
\* returned; when none of them raises all of them are called and the reply
\* for the frame is what the last one returned.
C16_ActionChain ==
    Dispatched =>
        LET called == dispatched.called
            regs == registered(dispatched.rpath)
        IN  /\ Len(called) <= Len(regs)
            /\ \A k \in 1..Len(called) : called[k].cb = regs[k]
            /\ \A k \in 1..Len(called) :
                 called[k].resp = IF k = 1 THEN [kind |-> "str", text |-> <<>>]
                                  ELSE called[k - 1].ret
            /\ ~dispatched.raised =>
                 /\ Len(called) = Len(regs)
                 /\ Len(regs) > 0 => dispatched.resp = called[Len(called)].ret

C16_Witness ==
    /\ dispatched.rpath = "/t"
    /\ Len(dispatched.called) = 2
    /\ dispatched.called[2].resp.text = <<"a">>
    /\ dispatched.resp.text = <<"a", "b">>

\* C17: after the dispatch of a frame a reply frame is sent on the connection
\* if and only if the final resp is non-empty: no reply frame is empty, and a
\* frame on a path without a registered action gets none.
C17_ReplyIffNonEmpty ==
    /\ Dispatched =>
         (dispatched.sent <=> (dispatched.resp.kind # "None" /\ dispatched.resp.text # <<>>))
    /\ \A ws \in WebSockets : \A k \in 1..Len(outbox[ws]) :
         outbox[ws][k].kind = "reply" => outbox[ws][k].body # <<>>

\* C18: when an action raises for a frame, no later action of the chain is
\* called for it, the reply frame is the JSON object {"error": message}, and
\* the connection is as open and as tracked as before and goes on to receive.
C18_RaiseAbortsChain ==
    [][ (nframes' # nframes /\ dispatched'.raised) =>
          LET called == dispatched'.called
              ws == dispatched'.ws
              last == called[Len(called)]
          IN  /\ last.raised # <<>>
              /\ \A k \in 1..(Len(called) - 1) : called[k].raised = <<>>
              /\ Len(outbox'[ws]) = Len(outbox[ws]) + 1
              /\ outbox'[ws][Len(outbox'[ws])] =
                   [kind |-> "reply", req |-> nframes',
                    body |-> <<"{\"error\": ">> \o last.raised \o <<"}">>]
              /\ conn'[ws] = "open"
              /\ ctask'[ws].pc = "recv"
              /\ websockets' = websockets /\ reg_pos(websockets', ws) # 0
              /\ fired' = fired ]_vars

\* two frames on a connection whose second action raises: both were answered
C18_Witness ==
    \E ws \in WebSockets :
        /\ cpath[ws] = "/x"
        /\ dispatched.ws = ws /\ dispatched.raised
        /\ Len(dispatched.called) = 2 /\ Len(registered("/x")) = 3
        /\ Len(replies(ws)) = 2

\* the last frame the server sent on ws is the JSON object of an error, the
\* reply to the frame just dispatched
ErrorReplied(ws) ==
    /\ Len(outbox'[ws]) = Len(outbox[ws]) + 1
    /\ LET m == outbox'[ws][Len(outbox'[ws])]
       IN  /\ m.kind = "reply" /\ m.req = nframes'
           /\ Len(m.body) >= 2 /\ m.body[1] = "{\"error\": " /\ m.body[Len(m.body)] = "}"

\* the connection of ws is as it was: open, tracked or not as before, its
\* task in its receive loop
StaysOpen(ws) ==
    /\ conn'[ws] = "open"
    /\ ctask'[ws].pc = "recv"
    /\ websockets' = websockets
    /\ fired' = fired

\* the Python types a JSON value of a criteria key may have
AllowedTypes(k) ==
    CASE k \in {"id", "source", "content"} -> {"str"}
      [] k \in {"start", "end"} -> {"int", "bool"}
      [] k = "tags" -> {"list"}

\* a criteria object with an unknown key or with a value of a type that is
\* not allowed for its key
InvalidCriteria(items) ==
    \E k \in 1..Len(items) :
        \/ items[k].k \notin {"id", "source", "start", "end", "content", "tags"}
        \/ items[k].t \notin AllowedTypes(items[k].k)

C13_RejectedIffStartMissing ==
    [][ (nframes' # nframes /\ dispatched'.rpath = "/find") =>
          /\ dispatched'.raised <=> "start" \notin DOMAIN dispatched'.message
          /\ dispatched'.raised =>
               /\ ErrorReplied(dispatched'.ws)
               /\ finds' = finds /\ loopq' = loopq
               /\ StaysOpen(dispatched'.ws) ]_vars

\* the frames the server sent on ws for the request numbered req
frames_of(ws, req) == SelectSeq(outbox[ws], LAMBDA m : m.kind # "close" /\ m.req = req)

\* C11: for every valid /find request the "ok" reply is on the connection
\* before every result frame of the request, and the result frames are the
\* events the search yields, one frame each and in the order of the search:
\* as many as were sent so far, all of them once the search has completed.
C11_FindOrder ==
    \A f \in 1..Len(finds) :
        LET fnd == finds[f]
            frames == frames_of(fnd.ws, fnd.req)
            nsent == IF fnd.pc = "done" THEN Len(fnd.results) ELSE fnd.pos - 1
        IN  /\ Len(frames) = nsent + 1
            /\ frames[1].kind = "reply" /\ frames[1].body = <<"ok">>
            /\ \A k \in 1..nsent :
                 /\ frames[k + 1].kind = "result"
                 /\ frames[k + 1].body = serialize_token(fnd.results[k])

\* two searches on one connection, streamed in turns, both completed
C11_Witness ==
    /\ Len(finds) = 2
    /\ finds[1].ws = finds[2].ws
    /\ \A f \in 1..2 : finds[f].pc = "done" /\ Len(finds[f].results) = 2
    /\ LET frames == outbox[finds[1].ws]
       IN  /\ Len(frames) = 6
           /\ frames[4].req = 1 /\ frames[5].req = 2 /\ frames[6].req = 1

\* C14: a /live frame on a connection that has a filter installed is ignored:
\* the filter of the connection, and every other filter, is what it was.
C14_LaterFramesIgnored ==
    [][ (nframes' # nframes /\ dispatched'.rpath = "/live"
            /\ filter_pos(filters, dispatched'.ws) # 0) =>
          filters' = filters ]_vars

----------------------------------------------------------------------------
(* Properties of the registry of connections and of Server.stop *)

Tracked(ws) == reg_pos(websockets, ws) # 0

\* C19: the close observers of a connection are never fired twice; a
\* connection that was tracked is out of the registry exactly when its
\* observers were fired; and they were fired once for every connection whose
\* task ended (by ConnectionClosed or by another exception) and for every
\* connection that stop() went through, in whatever order these happen.
C19_ObserversOnce ==
    \A ws \in WebSockets :
        /\ fired[ws] <= 1
        /\ cpath[ws] # "" => (~Tracked(ws) <=> fired[ws] = 1)
        /\ ctask[ws].pc = "ended" => fired[ws] = 1
        /\ \A k \in 1..Len(stopper.wss) :
             (stopper.wss[k] = ws /\ (k < stopper.i \/ (k = stopper.i /\ stopper.pc = "schedule")))
                => fired[ws] = 1

\* stop() looked its connection up, the task of the connection removed it and
\* fired its observers, and stop() is about to delete it
C19_Witness ==
    \E ws \in WebSockets :
        /\ stopper.pc = "del" /\ stopper.hnd /\ stopper.wss[stopper.i] = ws
        /\ ctask[ws].pc = "ended"
        /\ ~Tracked(ws) /\ fired[ws] = 1

\* C21: once stop() has returned, after the closes completed or after its
\* timeout, the server is marked stopped: its started flag is false.
C21_StoppedAfterStop == stopper.pc = "returned" => ~started

\* C20: stop() does not end by raising, and when it has returned a close
\* with code 1000 and reason "server stop" was scheduled for every connection
\* that was tracked when it was called, and either all the closes it waits
\* for have completed or its timeout has elapsed.
C20_StopClosesAllAndReturns ==
    /\ stopper.pc # "raised"
    /\ stopper.pc = "returned" =>
         /\ \A ws \in stopper.tracked : \E k \in 1..Len(stopper.wss) : stopper.wss[k] = ws
         /\ stopper.semaphore = 0 \/ stopper.total_wait > StopTimeout

----------------------------------------------------------------------------
(* Properties of the live matcher *)

Count(seq, x) == Cardinality({i \in 1..Len(seq) : seq[i] = x})

\* the filters of the clone a pipe task has gone through so far
Visited(task) == IF task.pc = "done" THEN Len(task.clone) ELSE task.pos

\* the clone of the task holds a filter of websocket ws that matches its event
MatchesIn(task, ws) ==
    \E i \in 1..Visited(task) :
        task.clone[i].ws = ws /\ match(task.event, task.clone[i].criteria)

C5_LiveOrder ==
    \A ws \in WebSockets : \A i \in 1..Len(sent[ws]), j \in 1..Len(sent[ws]) :
        i < j => sent[ws][i].id[1] < sent[ws][j].id[1]


\* the websockets whose send raised ConnectionClosed, resp. another error, in a run of pipe
Raised(ts, err) ==
    {ws \in WebSockets : \E i \in 1..Len(ts) : \E k \in 1..Len(ts[i].errors) :
        ts[i].errors[k] = [ws |-> ws, err |-> err]}

\* the send errors a step adds to the pipe tasks
NewErrors(i) ==
    IF i <= Len(tasks) THEN SubSeq(tasks'[i].errors, Len(tasks[i].errors) + 1, Len(tasks'[i].errors))
    ELSE tasks'[i].errors

\* C15: once a send of pipe raised ConnectionClosed on a connection the
\* filter of the connection is out of the live matcher, and a pipe that
\* starts later calls no send on it; a send that raises another error leaves
\* the filter of its connection registered.
C15_ErrorHandler ==
    [][ /\ \A ws \in Raised(tasks', "ConnectionClosed") : filter_pos(filters', ws) = 0
        /\ Len(tasks') > Len(tasks) =>
             \A ws \in Raised(tasks, "ConnectionClosed") :
                 Count(tasks'[Len(tasks')].called, ws) = 0
        /\ \A i \in 1..Len(tasks') : \A k \in 1..Len(NewErrors(i)) :
             (NewErrors(i)[k].err = "other" /\ filter_pos(filters, NewErrors(i)[k].ws) # 0)
                => /\ filter_pos(filters', NewErrors(i)[k].ws) # 0
                   /\ filters'[filter_pos(filters', NewErrors(i)[k].ws)] =
                        filters[filter_pos(filters, NewErrors(i)[k].ws)] ]_vars

\* one pipe lost ws1 to ConnectionClosed and a later pipe ran without it,
\* while a send on ws2 raised another error and the filter of ws2 is still there
C15_Witness ==
    /\ Len(tasks) = 2
    /\ "ws1" \in Raised(SubSeq(tasks, 1, 1), "ConnectionClosed")
    /\ \A k \in 1..Len(tasks[2].clone) : tasks[2].clone[k].ws # "ws1"
    /\ "ws2" \in Raised(tasks, "other")
    /\ filter_pos(filters, "ws2") # 0 /\ filter_pos(filters, "ws1") = 0

----------------------------------------------------------------------------
(* Properties of the codec *)

\* C10: parse_event(serialize(e)) returns an event whose id, source, timestamp,
\* tags and content equal those of e, for every event e, empty tags, empty
\* content and multi-byte content included.
C10_RoundTrip ==
    cpc = "parsed" => parsed.ok /\ parsed.event = cev

----------------------------------------------------------------------------
(* Collector.run and Collector.stop: the thread of run(), the thread that   *)
(* calls stop(), the server loop thread and the store loop thread.  An      *)
(* event loop runs, in each pass of run_forever, the callbacks that were in *)
(* its ready queue when the pass began; loop.stop() sets a flag that ends   *)
(* run_forever at the end of the pass in which it was called.               *)

MaxQueued == 2         \* /event frames ingested in SpecShutdown
MaxResults == 2        \* events a /find stream has to send in SpecShutdown

ShutdownOnly ==
    UNCHANGED <<storeVars, liveVars, codecVars, callVars, websockets, cpath, ctask,
                outbox, fired, loopq, finds, stopper, dispatched, nframes>>

\* loop.call_soon_threadsafe(callback) from another thread; a closed loop
\* raises RuntimeError and takes nothing
call_soon_threadsafe(state, ready, callback) ==
    IF state = "closed" THEN ready ELSE Append(ready, callback)

\* Collector.run: _setup_store and _setup_server start the two threads, each
\* with a new loop in run_forever (the server thread after Server.start());
\* run then waits in store_thread.join()
Run ==
    /\ coll.run = "new"
    /\ ~started
    /\ started' = TRUE
    /\ coll' = [coll EXCEPT !.run = "join_store", !.server_loop = "running",
                            !.store_loop = "running"]

\* an /event frame on a connection: _on_event posts _store_event to the store loop
OnEventFrame ==
    /\ coll.server_loop = "running"
    /\ coll.nevents < MaxQueued
    /\ coll' = [coll EXCEPT !.nevents = @ + 1,
                            !.store_ready = call_soon_threadsafe(coll.store_loop, @, "store_event")]
    /\ UNCHANGED started

\* a /find frame: _find_event posts _find_event_results to the store loop
FindEventFrame ==
    /\ coll.server_loop = "running"
    /\ coll.nfinds = 0
    /\ coll' = [coll EXCEPT !.nfinds = 1, !.results = MaxResults,
                            !.store_ready = call_soon_threadsafe(coll.store_loop, @, "find")]
    /\ UNCHANGED started

\* the store loop begins a pass over the callbacks that are ready now
StoreRunOnce ==
    /\ coll.store_loop = "running" /\ ~coll.store_stopping
    /\ coll.store_todo = 0 /\ coll.store_ready # <<>>
    /\ coll' = [coll EXCEPT !.store_todo = Len(coll.store_ready)]
    /\ UNCHANGED started

\* the store thread runs a callback of the pass and is not blocked
StoreRuns(callback) ==
    /\ coll.store_loop = "running"
    /\ coll.store_todo > 0 /\ ~coll.waiting
    /\ Head(coll.store_ready) = callback

\* _store_event: save, then run_coroutine_threadsafe(self.live.pipe(event), server_loop)
StoreEvent ==
    /\ StoreRuns("store_event")
    /\ coll' = [coll EXCEPT !.store_ready = Tail(@), !.store_todo = @ - 1,
                            !.server_ready = call_soon_threadsafe(coll.server_loop, @, "pipe")]
    /\ UNCHANGED started

\* a step of _find_event_results: the search is exhausted, or _send_result
\* posts websocket.send(ser) to the server loop and blocks in result.result();
\* posting to a closed loop raises and ends the stream
FindEventResults ==
    /\ StoreRuns("find")
    /\ coll' = IF coll.results = 0 \/ coll.server_loop = "closed"
               THEN [coll EXCEPT !.store_ready = Tail(@), !.store_todo = @ - 1]
               ELSE [coll EXCEPT !.store_ready = Tail(@), !.store_todo = @ - 1,
                                 !.waiting = TRUE, !.sent = "",
                                 !.server_ready = Append(@, "send")]
    /\ UNCHANGED started

\* result.result() returns or raises once the server loop has run the send:
\* after a sent result the stream yields to the loop with asyncio.sleep(0)
SendResultDone ==
    /\ coll.waiting /\ coll.sent # ""
    /\ coll' = IF coll.sent = "ok"
               THEN [coll EXCEPT !.waiting = FALSE, !.sent = "", !.results = @ - 1,
                                 !.store_ready = Append(@, "find")]
               ELSE [coll EXCEPT !.waiting = FALSE, !.sent = ""]
    /\ UNCHANGED started

\* store_loop.stop() runs on the store loop
StoreLoopStop ==
    /\ StoreRuns("stop")
    /\ coll' = [coll EXCEPT !.store_ready = Tail(@), !.store_todo = @ - 1,
                            !.store_stopping = TRUE]
    /\ UNCHANGED started

\* the pass ends with the flag set: run_forever returns, loop.close(), the
\* store thread ends
StoreLoopEnd ==
    /\ coll.store_loop = "running" /\ coll.store_stopping
    /\ coll.store_todo = 0 /\ ~coll.waiting
    /\ coll' = [coll EXCEPT !.store_loop = "closed"]
    /\ UNCHANGED started

\* the server loop begins a pass over the callbacks that are ready now
ServerRunOnce ==
    /\ coll.server_loop = "running" /\ ~coll.server_stopping
    /\ coll.server_todo = 0 /\ coll.server_ready # <<>>
    /\ coll' = [coll EXCEPT !.server_todo = Len(coll.server_ready)]
    /\ UNCHANGED started

ServerRuns(callback) ==
    /\ coll.server_loop = "running"
    /\ coll.server_todo > 0
    /\ Head(coll.server_ready) = callback

\* Task.__init__: self._loop.call_soon(self._step)
first_step(coro) == IF coro = "pipe" THEN "pipe_step" ELSE "send_step"

\* the callback of run_coroutine_threadsafe: ensure_future(coro) makes a task
\* whose first step is a new callback at the end of the ready queue
EnsureFuture(coro) ==
    /\ ServerRuns(coro)
    /\ coll' = [coll EXCEPT !.server_ready = Append(Tail(@), first_step(coro)),
                            !.server_todo = @ - 1]
    /\ UNCHANGED started

\* the task of live.pipe(event) runs
LivePipeStep ==
    /\ ServerRuns("pipe_step")
    /\ coll' = [coll EXCEPT !.server_ready = Tail(@), !.server_todo = @ - 1]
    /\ UNCHANGED started

\* the task of websocket.send(ser) runs: the frame is sent, or the connection
\* is closed and send raises; the future of _send_result is resolved
SendStep(outcome) ==
    /\ ServerRuns("send_step")
    /\ coll' = [coll EXCEPT !.server_ready = Tail(@), !.server_todo = @ - 1,
                            !.sent = outcome]
    /\ UNCHANGED started

\* server_loop.stop() runs on the server loop
ServerLoopStop ==
    /\ ServerRuns("stop")
    /\ coll' = [coll EXCEPT !.server_ready = Tail(@), !.server_todo = @ - 1,
                            !.server_stopping = TRUE]
    /\ UNCHANGED started

\* the pass ends with the flag set: run_forever returns
ServerLoopEnd ==
    /\ coll.server_loop = "running" /\ coll.server_stopping
    /\ coll.server_todo = 0
    /\ coll' = [coll EXCEPT !.server_loop = "stopped"]
    /\ UNCHANGED started

\* loop.close(); the server thread ends
ServerLoopClose ==
    /\ coll.server_loop = "stopped"
    /\ coll' = [coll EXCEPT !.server_loop = "closed"]
    /\ UNCHANGED started

\* Collector.stop() is called on a running collector: self.server.stop()
CollectorStop ==
    /\ coll.pc = "idle" /\ coll.run # "new"
    /\ coll' = [coll EXCEPT !.pc = "server_stop"]
    /\ UNCHANGED started

\* Server.stop() returns
ServerStopReturns ==
    /\ coll.pc = "server_stop"
    /\ coll' = [coll EXCEPT !.pc = "stop_store"]
    /\ UNCHANGED started

\* self.store_loop.call_soon_threadsafe(self.store_loop.stop)
StopStoreLoop ==
    /\ coll.pc = "stop_store"
    /\ coll' = [coll EXCEPT !.pc = "stop_server",
                            !.store_ready = call_soon_threadsafe(coll.store_loop, @, "stop")]
    /\ UNCHANGED started

\* finally: self.server_loop.call_soon_threadsafe(self.server_loop.stop)
StopServerLoop ==
    /\ coll.pc = "stop_server"
    /\ coll' = [coll EXCEPT !.pc = "close",
                            !.server_ready = call_soon_threadsafe(coll.server_loop, @, "stop")]
    /\ UNCHANGED started

\* self.store.close(); stop returns
StopStoreClose ==
    /\ coll.pc = "close"
    /\ coll' = [coll EXCEPT !.pc = "returned"]
    /\ UNCHANGED started

\* run: self.store_thread.join() returns
JoinStore ==
    /\ coll.run = "join_store" /\ coll.store_loop = "closed"
    /\ coll' = [coll EXCEPT !.run = "join_server"]
    /\ UNCHANGED started

\* run: self.server_thread.join() returns, and run with it
JoinServer ==
    /\ coll.run = "join_server" /\ coll.server_loop = "closed"
    /\ coll' = [coll EXCEPT !.run = "returned"]
    /\ UNCHANGED started

NextShutdown ==
    \/ Run /\ ShutdownOnly
    \/ OnEventFrame /\ ShutdownOnly
    \/ FindEventFrame /\ ShutdownOnly
    \/ StoreRunOnce /\ ShutdownOnly
    \/ StoreEvent /\ ShutdownOnly
    \/ FindEventResults /\ ShutdownOnly
    \/ SendResultDone /\ ShutdownOnly
    \/ StoreLoopStop /\ ShutdownOnly
    \/ StoreLoopEnd /\ ShutdownOnly
    \/ ServerRunOnce /\ ShutdownOnly
    \/ \E coro \in {"pipe", "send"} : EnsureFuture(coro) /\ ShutdownOnly
    \/ LivePipeStep /\ ShutdownOnly
    \/ \E outcome \in {"ok", "raised"} : SendStep(outcome) /\ ShutdownOnly
    \/ ServerLoopStop /\ ShutdownOnly
    \/ ServerLoopEnd /\ ShutdownOnly
    \/ ServerLoopClose /\ ShutdownOnly
    \/ CollectorStop /\ ShutdownOnly
    \/ ServerStopReturns /\ ShutdownOnly
    \/ StopStoreLoop /\ ShutdownOnly
    \/ StopServerLoop /\ ShutdownOnly
    \/ StopStoreClose /\ ShutdownOnly
    \/ JoinStore /\ ShutdownOnly
    \/ JoinServer /\ ShutdownOnly

\* every thread that can take a step takes one; no frame has to arrive and
\* stop() does not have to be called
StoreLoopStep ==
    /\ \/ StoreRunOnce \/ StoreEvent \/ FindEventResults \/ SendResultDone
       \/ StoreLoopStop \/ StoreLoopEnd
    /\ ShutdownOnly

ServerLoopStep ==
    /\ \/ ServerRunOnce \/ (\E coro \in {"pipe", "send"} : EnsureFuture(coro)) \/ LivePipeStep
       \/ (\E outcome \in {"ok", "raised"} : SendStep(outcome))
       \/ ServerLoopStop \/ ServerLoopEnd \/ ServerLoopClose
    /\ ShutdownOnly

StopStep ==
    /\ ServerStopReturns \/ StopStoreLoop \/ StopServerLoop \/ StopStoreClose
    /\ ShutdownOnly

RunStep == (JoinStore \/ JoinServer) /\ ShutdownOnly

ShutdownFair ==
    WF_vars(StoreLoopStep) /\ WF_vars(ServerLoopStep) /\ WF_vars(StopStep) /\ WF_vars(RunStep)

\* C22: after Collector.stop() was called on a running collector, the server
\* loop and the store loop end and Collector.run() returns, whatever work is
\* pending: ingest callbacks in the queue, a /find stream waiting for a send.
C22_ShutdownTerminates ==
    (coll.pc # "idle")
        ~> (coll.server_loop = "closed" /\ coll.store_loop = "closed" /\ coll.run = "returned")

----------------------------------------------------------------------------
(* Lookups in a FileIndex: the index is any list of DataFiles sorted by     *)
(* start, of partitions that lie apart, touch, overlap or lie within one    *)
(* another; one lookup is made in it.                                       *)

MaxFiles == 3          \* files of the index in SpecIndex

\* the bounds of the data files and the timestamps looked up
FileBounds == {10, 19, 30, 39}

QueryTimestamps == {5, 10, 15, 19, 27, 30, 35, 39, 45}

DataFiles == {f \in {DataFile(a, b) : a \in FileBounds, b \in FileBounds} : f.start <= f.end}

\* FileIndex.files: sorted(files, key=lambda n: n.start)
Indexes ==
    UNION {{L \in [1..n -> DataFiles] : \A k \in 1..(n - 1) : L[k].start <= L[k + 1].start} :
           n \in 0..MaxFiles}

Query(pc, files, a, b, idx, file, found) ==
    [pc |-> pc, files |-> files, a |-> a, b |-> b, idx |-> idx, file |-> file, found |-> found]

InitIndex == query \in {Query("index", L, 0, 0, 0, NoFile, <<>>) : L \in Indexes}

BinarySearch(t) ==
    /\ query.pc = "index"
    /\ query' = [query EXCEPT !.pc = "binary_search", !.a = t,
                              !.idx = binary_search(query.files, t)]
    /\ UNCHANGED client

FindEventFile(t) ==
    /\ query.pc = "index"
    /\ query' = [query EXCEPT !.pc = "find_event_file", !.a = t,
                              !.file = find_event_file(query.files, t)]
    /\ UNCHANGED client

\* find over an interval [a, b] with a <= b, or with b = 0 for no upper bound
Find(a, b) ==
    /\ query.pc = "index"
    /\ b = 0 \/ a <= b
    /\ query' = [query EXCEPT !.pc = "find", !.a = a, !.b = b,
                              !.found = find(query.files, a, b)]
    /\ UNCHANGED client

NextIndex ==
    \/ \E t \in QueryTimestamps : BinarySearch(t) /\ CallsOnly
    \/ \E t \in QueryTimestamps : FindEventFile(t) /\ CallsOnly
    \/ \E a \in QueryTimestamps, b \in QueryTimestamps \cup {0} : Find(a, b) /\ CallsOnly

\* the ends of the files are in the order of their starts, as they are in
\* every index of partitions of one width
EndsSorted(L) == \A k \in 1..(Len(L) - 1) : L[k].end <= L[k + 1].end

Intersects(f, a, b) == f.end >= a /\ (b = 0 \/ f.start <= b)

----------------------------------------------------------------------------
(* FileIndex construction on a directory followed by add_file calls.  Names *)
(* of three kinds: '<start>-<end>', names the pattern \d+-\d+ does not      *)
(* match, and names it matches as a prefix only ('10-70.bak'), for which    *)
(* int() of the part after the dash raises ValueError.                      *)

MaxAdds == 3           \* add_file calls in SpecAddFile
MaxListed == 2         \* names in the directory the index is built on

DataNames ==
    {n \in {data_name(a, b) : a \in {10, 30, 75}, b \in {19, 70, 135}} : n.start <= n.end}

OtherNames == {[tmp |-> "tmp", start |-> 0, end |-> 0]}

PrefixNames == {[tmp |-> "suffix", start |-> 10, end |-> 70]}

\* int(end) of _load_data_file raises for a name matched as a prefix only
load_data_file_raises(fname) == fname \in PrefixNames

Listings == {D \in SUBSET (DataNames \cup OtherNames) : Cardinality(D) <= MaxListed}

InitAddFile ==
    query \in {[pc |-> "index", files |-> load_files([n \in D |-> <<>>]), nadds |-> 0,
                name |-> [tmp |-> "", start |-> 0, end |-> 0], before |-> <<>>] :
               D \in Listings}

\* index.add_file(fname)
AddFile(fname) ==
    /\ query.pc \in {"index", "added"}
    /\ query.nadds < MaxAdds
    /\ query' = IF load_data_file_raises(fname)
                THEN [query EXCEPT !.pc = "raised", !.nadds = @ + 1, !.name = fname,
                                   !.before = query.files]
                ELSE [query EXCEPT !.pc = "added", !.nadds = @ + 1, !.name = fname,
                                   !.before = query.files,
                                   !.files = add_file(query.files, fname)]
    /\ UNCHANGED client

NextAddFile ==
    \E fname \in DataNames \cup OtherNames \cup PrefixNames : AddFile(fname) /\ CallsOnly

\* C34: after FileIndex construction and any sequence of add_file calls the
\* file list is sorted ascending by start; add_file with a name that is not
\* a data-file name leaves the list as it was, a data-file name adds its file.
C34_IndexSorted ==
    query.pc \in {"index", "added", "raised"} =>
        /\ \A k \in 1..(Len(query.files) - 1) : query.files[k].start <= query.files[k + 1].start
        /\ (query.pc # "index" /\ query.name \notin DataNames) => query.files = query.before
        /\ (query.pc = "added" /\ query.name \in DataNames) =>
              /\ Len(query.files) = Len(query.before) + 1
              /\ \E k \in 1..Len(query.files) :
                    /\ query.files[k] = DataFile(query.name.start, query.name.end)
                    /\ drop(query.files, k) = query.before

\* 10-19 was added to an index of 30-70 and 75-135 and stands first
C34_Witness ==
    /\ query.pc = "added"
    /\ query.name = data_name(10, 19)
    /\ query.files = <<DataFile(10, 19), DataFile(30, 70), DataFile(75, 135)>>

----------------------------------------------------------------------------
(* NaiveEventStore._match_forward with the filters of search: the events of *)
(* one data file are parsed back from their serialized records and admitted *)
(* by timestamp, by tags (flags) and by content.  The patterns are literal, *)
(* for which re.search(pattern, value) holds iff value contains pattern.    *)
(* Timestamps are in units of 1e-8 seconds, as in the codec.                *)

MaxStored == 2         \* events in the data file that is searched

SearchTimestamps == {1000000000, 1500000000}

SearchEvents ==
    { Event_init(<<"1">>, <<"s">>, ts, tags, content) :
        ts \in SearchTimestamps, tags \in {<<>>, << <<"a">> >>}, content \in {<<>>, <<"x">>} }

\* re.search(pattern, value) for a literal pattern
re_search(pattern, value) ==
    \E k \in 0..(Len(value) - Len(pattern)) : SubSeq(value, k + 1, k + Len(pattern)) = pattern

\* NaiveEventStore._matches(event, flags, match); has_flags = FALSE stands for
\* flags=None, the empty pattern for match=None
matches(event, has_flags, flags, pattern) ==
    IF has_flags /\ event.tags # <<>>
          /\ \E k \in 1..Len(flags) : \A j \in 1..Len(event.tags) : event.tags[j] # flags[k]
    THEN FALSE
    ELSE IF pattern # <<>> /\ event.content # <<>> /\ ~re_search(pattern, event.content)
    THEN FALSE
    ELSE TRUE

\* SequentialEventReader.events over the records that save wrote
RECURSIVE events_read(_)
events_read(stored) ==
    IF stored = <<>> THEN <<>>
    ELSE <<parse_event(serialize(Head(stored))).event>> \o events_read(Tail(stored))

\* the loop of _match_forward
RECURSIVE match_forward_events(_, _, _, _, _, _, _)
match_forward_events(events, ts_start, has_end, ts_end, has_flags, flags, pattern) ==
    IF events = <<>> THEN <<>>
    ELSE (IF /\ Head(events).timestamp >= ts_start
             /\ (~has_end \/ Head(events).timestamp <= ts_end)
             /\ matches(Head(events), has_flags, flags, pattern)
          THEN <<Head(events)>> ELSE <<>>)
         \o match_forward_events(Tail(events), ts_start, has_end, ts_end,
                                 has_flags, flags, pattern)

InitSearch ==
    query \in {[pc |-> "stored", stored |-> st, ts_start |-> 0, has_end |-> FALSE, ts_end |-> 0,
                has_flags |-> FALSE, flags |-> <<>>, pattern |-> <<>>, result |-> <<>>] :
               st \in UNION {[1..n -> SearchEvents] : n \in 0..MaxStored}}

\* search(ts_start, ts_end, flags, match) over the data file
MatchForward(ts_start, has_end, ts_end, has_flags, flags, pattern) ==
    /\ query.pc = "stored"
    /\ has_end \/ ts_end = 0
    /\ has_flags \/ flags = <<>>
    /\ query' = [query EXCEPT !.pc = "searched", !.ts_start = ts_start, !.has_end = has_end,
                              !.ts_end = ts_end, !.has_flags = has_flags, !.flags = flags,
                              !.pattern = pattern,
                              !.result = match_forward_events(events_read(query.stored),
                                             ts_start, has_end, ts_end, has_flags, flags, pattern)]
    /\ UNCHANGED client

NextSearch ==
    \E ts_start \in SearchTimestamps, has_end \in BOOLEAN, ts_end \in SearchTimestamps \cup {0},
       has_flags \in BOOLEAN, flags \in {<<>>, << <<"a">> >>}, pattern \in {<<>>, <<"x">>} :
        MatchForward(ts_start, has_end, ts_end, has_flags, flags, pattern) /\ CallsOnly

\* C31: search soundness.  Every event that search(from, to, tags, content)
\* yields has from <= timestamp <= to (no upper bound without to), carries
\* every requested tag and, when content is supplied, has content that the
\* content pattern matches; events without tags or with empty content too.
C31_SearchSound ==
    query.pc = "searched" =>
        \A i \in 1..Len(query.result) :
            LET e == query.result[i]
            IN  /\ e.timestamp >= query.ts_start
                /\ query.has_end => e.timestamp <= query.ts_end
                /\ query.has_flags =>
                      \A k \in 1..Len(query.flags) :
                          \E j \in 1..Len(e.tags) : e.tags[j] = query.flags[k]
                /\ query.pattern # <<>> => re_search(query.pattern, e.content)

----------------------------------------------------------------------------
(* Live.pipe over one snapshot of the filters, with criteria whose regular  *)
(* expression does not compile and sends that raise.                        *)

MaxSnapshot == 2       \* filters in the snapshot that pipe clones

\* re.compile raises re.error on a pattern with an unbalanced parenthesis
RECURSIVE re_depth(_)
re_depth(pattern) ==
    IF pattern = <<>> THEN 0
    ELSE (CASE Head(pattern) = "(" -> 1 [] Head(pattern) = ")" -> -1 [] OTHER -> 0)
         + re_depth(Tail(pattern))

re_error(pattern) == re_depth(pattern) # 0

\* Event.match raises: all([...]) evaluates the four tests, and _match calls
\* re.match(pattern, value) for id, for source when id matched, for content
match_raises(event, criteria) ==
    \/ "id" \in DOMAIN criteria /\ re_error(criteria.id)
    \/ /\ "source" \in DOMAIN criteria
       /\ "id" \in DOMAIN criteria => re_match(criteria.id, event.id)
       /\ re_error(criteria.source)
    \/ /\ "content" \in DOMAIN criteria
       /\ criteria.content # <<>>
       /\ re_error(criteria.content)

\* criteria that pass LiveFilter._check_criteria: str for source, list for tags
PipeCriteria ==
    { << >>,
      [tags |-> <<"a">>],
      [source |-> <<"s">>],
      [source |-> <<"(">>] }

\* what await ws.send(result) does on a connection
SendOutcomes == {"sent", "ConnectionClosed", "other"}

\* Live.pipe(event) over filters_clone: live_filter.match(event) is evaluated
\* outside the try, the send inside it with _handle_error in its except clause
RECURSIVE Live_pipe(_, _, _)
Live_pipe(clone, event, outcome) ==
    IF clone = <<>> THEN [received |-> <<>>, errors |-> <<>>, raised |-> FALSE]
    ELSE IF match_raises(event, Head(clone).criteria)
    THEN [received |-> <<>>, errors |-> <<>>, raised |-> TRUE]
    ELSE IF ~LiveFilter_match(Head(clone), event) THEN Live_pipe(Tail(clone), event, outcome)
    ELSE IF outcome[Head(clone).ws] = "sent"
    THEN [Live_pipe(Tail(clone), event, outcome) EXCEPT !.received = <<Head(clone).ws>> \o @]
    ELSE [Live_pipe(Tail(clone), event, outcome)
             EXCEPT !.errors = <<[ws |-> Head(clone).ws, err |-> outcome[Head(clone).ws]]>> \o @]

\* the snapshots: one filter per websocket, in the order they were added
Snapshots ==
    UNION {{fs \in [1..n -> {LiveFilter(ws, c) : ws \in WebSockets, c \in PipeCriteria}] :
               \A a, b \in 1..n : a # b => fs[a].ws # fs[b].ws} : n \in 0..MaxSnapshot}

InitPipe ==
    query \in {[pc |-> "filters", clone |-> fs, outcome |-> o,
                event |-> LiveEvent("1", 10, <<"a">>, <<"s", "1">>),
                received |-> <<>>, errors |-> <<>>, raised |-> FALSE, filters |-> fs] :
               fs \in Snapshots, o \in [WebSockets -> SendOutcomes]}

\* one call of pipe(event), with the error handlers of its failed sends
Pipe ==
    /\ query.pc = "filters"
    /\ LET r == Live_pipe(query.clone, query.event, query.outcome)
       IN  query' = [query EXCEPT !.pc = "piped", !.received = r.received,
                                  !.errors = r.errors, !.raised = r.raised,
                                  !.filters = handle_errors(query.filters, r.errors)]
    /\ UNCHANGED client

NextPipe == Pipe /\ CallsOnly

\* C40: subscriber isolation in pipe(e).  A failure while handling one filter,
\* whether its send raises or the evaluation of its criteria against e raises,
\* does not prevent e from being sent to the other matching filters of the
\* snapshot: every filter that matches e and whose send succeeds receives e.
C40_SubscriberIsolation ==
    query.pc = "piped" =>
        \A k \in 1..Len(query.clone) :
            /\ ~match_raises(query.event, query.clone[k].criteria)
            /\ LiveFilter_match(query.clone[k], query.event)
            /\ query.outcome[query.clone[k].ws] = "sent"
            => query.clone[k].ws \in Range(query.received)

----------------------------------------------------------------------------
(* Collector ingestion: an /event frame from _on_event, through the store   *)
(* loop's _store_event, to NaiveEventStore.save and Live.pipe, with the     *)
(* thread that calls Collector.stop.  In this part coll is the collector    *)
(* with its store: buffer holds the frames whose events save wrote to the   *)
(* MemoryFile, flushed the frames whose events a flush wrote to disk.       *)

MaxIngested == 2       \* /event frames received in SpecIngest

IngestEvent(tags) == Event_init(<<"1">>, <<"s">>, 1000000000, tags, <<"x">>)

\* frames that are serialized events
WellFormed == { serialize(IngestEvent(tags)) : tags \in {<<>>, << <<"a">> >>} }

\* frames that are not: a bad preamble, a content shorter than its byte
\* count, a header with an unknown key
BadPreamble == <<"x">> \o Tail(serialize(IngestEvent(<<>>)))

WrongCounts == SubSeq(serialize(IngestEvent(<<>>)), 1, Len(serialize(IngestEvent(<<>>))) - 2)

UnknownKey ==
    encode(<<"e", "v", "e", "n", "t", ":", " ", "1", "2", " ", "1", "1", " ", "1", "\n",
             "i", "d", ":", "1", "\n", "f", "o", "o", ":", "1", "\n", "x", "\n">>)

Malformed == {BadPreamble, WrongCounts, UnknownKey}

\* the /live subscriber of this part: LiveFilter(ws1, {"tags": ["a"]})
Subscriber == LiveFilter("ws1", [tags |-> << <<"a">> >>])

\* Collector.__init__(store, persistent=persistent), no frame received yet
NewIngest(is_persistent) ==
    [persistent |-> is_persistent, run |-> "new", stop |-> "idle",
     store_loop |-> "None", store_ready |-> <<>>, store_todo |-> 0, store_stopping |-> FALSE,
     server_loop |-> "None", server_ready |-> <<>>, server_todo |-> 0, server_stopping |-> FALSE,
     producer |-> "open", timer |-> TRUE,
     frames |-> <<>>, buffer |-> <<>>, flushed |-> {}, piped |-> {}, received |-> {},
     errors |-> <<>>]

InitIngest == coll \in {NewIngest(p) : p \in BOOLEAN}

IngestOnly ==
    UNCHANGED <<storeVars, liveVars, codecVars, callVars, websockets, cpath, ctask,
                outbox, fired, loopq, finds, stopper, dispatched, nframes, started>>

\* Collector.run: _setup_store only when persistent, then _setup_server
CollectorRun ==
    /\ coll.run = "new"
    /\ coll' = [coll EXCEPT !.run = "running",
                            !.store_loop = IF coll.persistent THEN "running" ELSE "None",
                            !.server_loop = "running"]

\* _on_event(path, message, websocket, resp):
\* self.store_loop.call_soon_threadsafe(self._store_event, message), where
\* store_loop is None (AttributeError) or closed (RuntimeError) the except
\* clause logs the exception
on_event(c, message) ==
    LET n == Len(c.frames) + 1
        received == [c EXCEPT !.frames = Append(@, [message |-> message,
                                                    before_stop |-> c.stop = "idle",
                                                    stored |-> "no"])]
    IN  IF c.store_loop = "None"
        THEN [received EXCEPT !.errors = Append(@, [n |-> n, error |-> "AttributeError"])]
        ELSE IF c.store_loop = "closed"
        THEN [received EXCEPT !.errors = Append(@, [n |-> n, error |-> "RuntimeError"])]
        ELSE [received EXCEPT !.store_ready = Append(@, [cb |-> "store_event", n |-> n])]

\* a frame arrives on the producer's /event connection
OnEventCalled(message) ==
    /\ coll.server_loop = "running" /\ ~coll.server_stopping
    /\ coll.producer = "open"
    /\ Len(coll.frames) < MaxIngested
    /\ coll' = on_event(coll, message)

\* _store_event(message): parse_event (an exception leaves the callback and
\* is logged by the loop), save when persistent, then
\* run_coroutine_threadsafe(self.live.pipe(event), self.server_loop), whose
\* exception on a closed loop is logged
store_event(c, n) ==
    LET r == parse_event(c.frames[n].message)
        after_save == IF c.persistent
                 THEN [c EXCEPT !.buffer = Append(@, n),
                                !.frames[n].stored = IF c.timer THEN "yes"
                                                     ELSE "after close"]
                 ELSE c
    IN  IF ~r.ok THEN [c EXCEPT !.errors = Append(@, [n |-> n, error |-> r.error])]
        ELSE IF c.server_loop = "closed"
        THEN [after_save EXCEPT !.errors = Append(@, [n |-> n, error |-> "RuntimeError"])]
        ELSE [after_save EXCEPT !.server_ready = Append(@, [cb |-> "pipe", n |-> n])]

\* run_forever begins a pass: it will run the callbacks that are ready now
StoreLoopPass ==
    /\ coll.store_loop = "running" /\ ~coll.store_stopping
    /\ coll.store_todo = 0 /\ coll.store_ready # <<>>
    /\ coll' = [coll EXCEPT !.store_todo = Len(coll.store_ready)]

StoreEventCalled ==
    /\ coll.store_loop = "running" /\ coll.store_todo > 0
    /\ Head(coll.store_ready).cb = "store_event"
    /\ coll' = [store_event(coll, Head(coll.store_ready).n)
                   EXCEPT !.store_ready = Tail(@), !.store_todo = @ - 1]

StoreLoopStopCalled ==
    /\ coll.store_loop = "running" /\ coll.store_todo > 0
    /\ Head(coll.store_ready).cb = "stop"
    /\ coll' = [coll EXCEPT !.store_ready = Tail(@), !.store_todo = @ - 1,
                            !.store_stopping = TRUE]

\* the pass in which stop() ran is over: run_forever returns, loop.close()
StoreLoopClosed ==
    /\ coll.store_loop = "running" /\ coll.store_stopping /\ coll.store_todo = 0
    /\ coll' = [coll EXCEPT !.store_loop = "closed"]

ServerLoopPass ==
    /\ coll.server_loop = "running" /\ ~coll.server_stopping
    /\ coll.server_todo = 0 /\ coll.server_ready # <<>>
    /\ coll' = [coll EXCEPT !.server_todo = Len(coll.server_ready)]

\* Live.pipe(event) on the server loop: the event goes to the subscriber
\* whose filter matches it
LivePipeCalled ==
    /\ coll.server_loop = "running" /\ coll.server_todo > 0
    /\ Head(coll.server_ready).cb = "pipe"
    /\ LET n == Head(coll.server_ready).n
           event == parse_event(coll.frames[n].message).event
       IN  coll' = [coll EXCEPT !.server_ready = Tail(@), !.server_todo = @ - 1,
                                !.piped = @ \cup {n},
                                !.received = IF LiveFilter_match(Subscriber, event)
                                             THEN @ \cup {n} ELSE @]

ServerLoopStopCalled ==
    /\ coll.server_loop = "running" /\ coll.server_todo > 0
    /\ Head(coll.server_ready).cb = "stop"
    /\ coll' = [coll EXCEPT !.server_ready = Tail(@), !.server_todo = @ - 1,
                            !.server_stopping = TRUE]

ServerLoopClosed ==
    /\ coll.server_loop = "running" /\ coll.server_stopping /\ coll.server_todo = 0
    /\ coll' = [coll EXCEPT !.server_loop = "closed"]

\* PeriodicTimer.run: _flush_open_files while the timer is not cancelled
TimerFlush ==
    /\ coll.timer
    /\ coll.buffer # <<>> /\ Range(coll.buffer) # coll.flushed
    /\ coll' = [coll EXCEPT !.flushed = Range(coll.buffer)]

\* Collector.stop: self.server.stop() closes the connections
StopServer ==
    /\ coll.run = "running" /\ coll.stop = "idle"
    /\ coll' = [coll EXCEPT !.stop = "server", !.producer = "closed"]

\* store_loop.call_soon_threadsafe(store_loop.stop) when persistent, then
\* server_loop.call_soon_threadsafe(server_loop.stop)
StopLoops ==
    /\ coll.stop = "server"
    /\ coll' = [coll EXCEPT !.stop = "loops",
                            !.store_ready = IF coll.persistent
                                            THEN Append(@, [cb |-> "stop", n |-> 0]) ELSE @,
                            !.server_ready = Append(@, [cb |-> "stop", n |-> 0])]

\* self.store.close(): _flush_open_files, timer.cancel(), timer.join(); stop
\* returns
StopClose ==
    /\ coll.stop = "loops"
    /\ coll' = [coll EXCEPT !.stop = "done", !.flushed = Range(coll.buffer), !.timer = FALSE]

NextIngest ==
    \/ CollectorRun /\ IngestOnly
    \/ (\E message \in WellFormed \cup Malformed : OnEventCalled(message)) /\ IngestOnly
    \/ StoreLoopPass /\ IngestOnly
    \/ StoreEventCalled /\ IngestOnly
    \/ StoreLoopStopCalled /\ IngestOnly
    \/ StoreLoopClosed /\ IngestOnly
    \/ ServerLoopPass /\ IngestOnly
    \/ LivePipeCalled /\ IngestOnly
    \/ ServerLoopStopCalled /\ IngestOnly
    \/ ServerLoopClosed /\ IngestOnly
    \/ TimerFlush /\ IngestOnly
    \/ StopServer /\ IngestOnly
    \/ StopLoops /\ IngestOnly
    \/ StopClose /\ IngestOnly

\* the frames whose _store_event has run
Handled(n) ==
    /\ n \in 1..Len(coll.frames)
    /\ \A k \in 1..Len(coll.store_ready) : coll.store_ready[k].n # n

\* C33: a frame on /event that is not a well-formed serialized event is
\* neither persisted nor piped to the live subscribers, and the connection
\* it came on is closed.
C33_MalformedRejected ==
    \A n \in 1..Len(coll.frames) :
        coll.frames[n].message \in Malformed /\ Handled(n) =>
            /\ n \notin Range(coll.buffer) /\ n \notin coll.flushed
            /\ n \notin coll.piped
            /\ coll.producer = "closed"

\* C35: on a collector with persistent=False every well-formed event on
\* /event is still parsed and piped through the live matcher, so that the
\* matching /live subscribers receive it, although nothing is saved: once the
\* server loop is idle the subscriber has every matching event.
C35_NonPersistentPiped ==
    ~coll.persistent /\ coll.server_loop = "running" /\ coll.server_ready = <<>> =>
        /\ coll.buffer = <<>>
        /\ \A n \in 1..Len(coll.frames) :
               /\ coll.frames[n].message \in WellFormed
               /\ LiveFilter_match(Subscriber, parse_event(coll.frames[n].message).event)
               => n \in coll.received

\* C36: every event whose /event frame was accepted before Collector.stop()
\* was called is saved and flushed to disk by the time stop() completes: no
\* save runs in the store context after the final flush of store.close().
C36_StopFlushesAccepted ==
    coll.stop = "done" /\ coll.persistent =>
        \A n \in 1..Len(coll.frames) :
            /\ coll.frames[n].before_stop /\ coll.frames[n].message \in WellFormed
               => n \in coll.flushed
            /\ coll.frames[n].stored # "after close"

----------------------------------------------------------------------------
(* comm.Client: the receive loop _recv, close() and the close handlers.     *)
(* A handler is known by its place in _close_handlers; it returns or raises *)

MaxHandlers == 3       \* close handlers registered on the client
MaxMessages == 2       \* messages the client receives

HandlerKinds == {"returns", "raises"}

CloseCodes == {1000, 1001}

CloseReasons == {"", "going away"}

\* Client.__init__
NewClient ==
    [pc |-> "new", is_open |-> FALSE, close_handlers |-> <<>>, calls |-> <<>>,
     nrecv |-> 0, observed |-> <<>>]

InitClient == client = NewClient

\* the loop of _closed: hnd(self.websocket, code, reason) for every handler,
\* an exception of a handler is logged and the loop goes on
RECURSIVE call_handlers_until_raise(_, _, _, _)
call_handlers_until_raise(handlers, k, code, reason) ==
    IF k > Len(handlers) THEN <<>>
    ELSE <<[hnd |-> k, code |-> code, reason |-> reason]>>
         \o (IF handlers[k] = "raises" THEN <<>>
             ELSE call_handlers_until_raise(handlers, k + 1, code, reason))

RECURSIVE call_handlers(_, _, _, _)
call_handlers(handlers, k, code, reason) ==
    IF k > Len(handlers) THEN <<>>
    ELSE <<[hnd |-> k, code |-> code, reason |-> reason]>>
         \o call_handlers(handlers, k + 1, code, reason)

\* Client._closed(code, reason), followed by the test of the while loop of _recv
closed(c, code, reason) ==
    [c EXCEPT !.is_open = FALSE,
              !.calls = @ \o call_handlers(c.close_handlers, 1, code, reason),
              !.pc = "ended"]

\* Client.on_close(handler)
ClientOnClose(kind) ==
    /\ client.pc \in {"new", "recv"}
    /\ Len(client.close_handlers) < MaxHandlers
    /\ client' = [client EXCEPT !.close_handlers = Append(@, kind)]
    /\ UNCHANGED query

\* Client.connect: _open_websocket sets _is_open and starts _recv
ClientConnect ==
    /\ client.pc = "new"
    /\ client' = [client EXCEPT !.pc = "recv", !.is_open = TRUE]
    /\ UNCHANGED query

\* _recv: a message arrives and is processed; then the test of the while loop
ClientRecv ==
    /\ client.pc = "recv"
    /\ client.nrecv < MaxMessages
    /\ client' = [client EXCEPT !.nrecv = @ + 1,
                                !.pc = IF client.is_open THEN "recv" ELSE "ended"]
    /\ UNCHANGED query

\* _recv: recv_handler raises: except Exception: self._closed(1006, reason=str(e))
ClientRecvException ==
    /\ client.pc = "recv"
    /\ client.nrecv < MaxMessages
    /\ client' = [closed(client, 1006, "error") EXCEPT !.nrecv = @ + 1]
    /\ UNCHANGED query

\* _recv: websocket.recv() raises ConnectionClosed: self._closed(wse.code, wse.reason)
ClientConnectionClosed(code, reason) ==
    /\ client.pc = "recv"
    /\ client' = [closed(client, code, reason) EXCEPT !.observed = <<code, reason>>]
    /\ UNCHANGED query

\* Client.close(reason): _is_open = False; the loop is still waiting in recv()
ClientClose ==
    /\ client.pc = "recv"
    /\ client.is_open
    /\ client' = [client EXCEPT !.is_open = FALSE]
    /\ UNCHANGED query

NextClient ==
    \/ \E kind \in HandlerKinds : ClientOnClose(kind) /\ CallsOnly
    \/ ClientConnect /\ CallsOnly
    \/ ClientRecv /\ CallsOnly
    \/ ClientRecvException /\ CallsOnly
    \/ \E code \in CloseCodes, reason \in CloseReasons :
          ClientConnectionClosed(code, reason) /\ CallsOnly
    \/ ClientClose /\ CallsOnly

\* C30: when the receive loop has observed ConnectionClosed, the client is
\* closed (is_open() is false), the receive loop has ended, and every
\* registered close handler was invoked exactly once, with the close code and
\* reason, also the handlers behind one that raised.
C30_ClosedNotifiesAll ==
    client.pc # "none" /\ client.observed # <<>> =>
        /\ ~client.is_open
        /\ client.pc = "ended"
        /\ \A k \in 1..Len(client.close_handlers) :
              /\ Cardinality({j \in 1..Len(client.calls) : client.calls[j].hnd = k}) = 1
              /\ \A j \in 1..Len(client.calls) :
                    client.calls[j].hnd = k =>
                        /\ client.calls[j].code = client.observed[1]
                        /\ client.calls[j].reason = client.observed[2]

\* three handlers of which the first raises, all called with 1001 'going away'
C30_Witness ==
    /\ client.pc = "ended"
    /\ client.observed = <<1001, "going away">>
    /\ client.close_handlers = <<"raises", "returns", "returns">>
    /\ Len(client.calls) = 3

----------------------------------------------------------------------------
(* The specifications.  Each one runs one part of the program and leaves    *)
(* the others at rest.                                                      *)

\* no lookup was made, no client was built
CallsAtRest ==
    /\ query = [pc |-> "none"]
    /\ client = [pc |-> "none"]

StoreAtRest ==
    /\ disk = << >>
    /\ NewStore(disk, TRUE)
    /\ queue = <<>>
    /\ sv = [s \in Savers |-> IdleSaver]
    /\ nsaves = 0
    /\ nrestarts = 0
    /\ saved = <<>>
    /\ closeSnap = <<>>

CodecAtRest ==
    /\ cev = Event_init(<<"a", "1">>, <<"s">>, 1000000000, <<>>, <<>>)
    /\ wire = <<>>
    /\ parsed = Raise("")
    /\ cpc = "event"

Init == InitStore /\ InitLive /\ CodecAtRest /\ ServerAtRest /\ CallsAtRest

Spec == Init /\ [][Next]_vars

SpecThreads == Init /\ [][NextThreads]_vars

InitLiveOnly == StoreAtRest /\ InitLive /\ CodecAtRest /\ ServerAtRest /\ CallsAtRest

SpecLive == InitLiveOnly /\ [][NextLive]_vars

InitCodecOnly == StoreAtRest /\ InitLive /\ InitCodec /\ ServerAtRest /\ CallsAtRest

SpecCodec == InitCodecOnly /\ [][NextCodec]_vars

InitServer == StoreWithEvents /\ InitLive /\ CodecAtRest /\ ServerAtRest /\ CallsAtRest

SpecServer == InitServer /\ [][NextServer]_vars

SpecStop == InitServer /\ [][NextStop]_vars

InitIndexOnly == StoreAtRest /\ InitLive /\ CodecAtRest /\ ServerAtRest /\ InitIndex
                 /\ client = [pc |-> "none"]

SpecIndex == InitIndexOnly /\ [][NextIndex]_vars

SpecThreadsFair == Init /\ [][NextThreads]_vars /\ ThreadsFair

SpecFaults == Init /\ [][NextFaults]_vars /\ ThreadsFair

InitClientOnly == StoreAtRest /\ InitLive /\ CodecAtRest /\ ServerAtRest /\ InitClient
                  /\ query = [pc |-> "none"]

SpecClient == InitClientOnly /\ [][NextClient]_vars

SpecShutdown == InitServer /\ [][NextShutdown]_vars /\ ShutdownFair

InitAddFileOnly == StoreAtRest /\ InitLive /\ CodecAtRest /\ ServerAtRest /\ InitAddFile
                   /\ client = [pc |-> "none"]

SpecAddFile == InitAddFileOnly /\ [][NextAddFile]_vars

SpecPartitions == Init /\ [][NextPartitions]_vars

InitSearchOnly == StoreAtRest /\ InitLive /\ CodecAtRest /\ ServerAtRest /\ InitSearch
                  /\ client = [pc |-> "none"]

SpecSearch == InitSearchOnly /\ [][NextSearch]_vars

InitIngestOnly ==
    /\ StoreAtRest /\ InitLive /\ CodecAtRest /\ CallsAtRest
    /\ websockets = <<>>
    /\ cpath = [ws \in WebSockets |-> ""]
    /\ ctask = [ws \in WebSockets |-> [pc |-> "none", hnd |-> FALSE]]
    /\ outbox = [ws \in WebSockets |-> <<>>]
    /\ fired = [ws \in WebSockets |-> 0]
    /\ loopq = <<>>
    /\ finds = <<>>
    /\ stopper = [pc |-> "idle", tracked |-> {}, size |-> 0, pos |-> 0, wss |-> <<>>, i |-> 0,
                  hnd |-> FALSE, semaphore |-> 0, total_wait |-> 0]
    /\ dispatched = [ws |-> "", rpath |-> "", message |-> <<>>, called |-> <<>>,
                     resp |-> None, raised |-> FALSE, sent |-> FALSE]
    /\ nframes = 0
    /\ started = FALSE
    /\ InitIngest

SpecIngest == InitIngestOnly /\ [][NextIngest]_vars

InitSaversOnly == InitSavers /\ InitLive /\ CodecAtRest /\ ServerAtRest /\ CallsAtRest

SpecSavers == InitSaversOnly /\ [][NextSavers]_vars

InitPipeOnly == StoreAtRest /\ InitLive /\ CodecAtRest /\ ServerAtRest /\ InitPipe
                /\ client = [pc |-> "none"]

SpecPipe == InitPipeOnly /\ [][NextPipe]_vars

====
